---------------------------- MODULE Spec2Model ----------------------------
(***************************************************************************)
(* Admission pipeline of the GAP shard tools: path guard and safe archive  *)
(* extraction (tools/safe_io.py), the fingerprint cache update and the     *)
(* duplicate detection (gap_agent/dedupe.py), the shard validator          *)
(* (tools/validate.py), the admission score (tools/ingest_check.py), the   *)
(* atomic file write (tools/atomic.py) and the loading of a shard from a   *)
(* URI (tools/uri_loader.py).                                              *)
(*                                                                         *)
(* Text is modelled as a sequence of one-character strings, so that the    *)
(* string-prefix test of _resolve_under is a test on characters while the  *)
(* properties are stated on path components.                               *)
(***************************************************************************)
EXTENDS Integers, Sequences, FiniteSets, TLC

VARIABLES
    pg_root,     \* _resolve_under: the root argument (text)
    pg_child,    \* _resolve_under: the child argument (text)
    pg_links,    \* symbolic links present in the file system
    pg_out,      \* outcome of the call: none / raised / returned path
    pg_parts,    \* the segments a wrapped candidate was built from, <<>> if none
    ex_ar,       \* extraction: the archive (format, readable, entries)
    ex_caller,   \* "direct" call on a given directory, or "scoped" in a TempDir
    ex_links,    \* symbolic links already present under the destination
    ex_pc,       \* extractor: idle / loop / raised / returned
    ex_idx,      \* index in the list of files of the next entry to extract
    ex_err,      \* the error raised, "" when none
    ex_failed,   \* index of the entry whose processing failed, 0 when none
    ex_fs,       \* nodes created on disk: [path, kind, by]
    td_pc,       \* TempDir scope: none / new / made / body / exited
    uc_file,     \* the cache file: absent, or its content as last written
    uc_init,     \* the content of the cache file before the calls
    uc_shard,    \* update_cache: the shard of each call
    uc_pc,       \* update_cache: where each call stands
    uc_data,     \* update_cache: cache_data, local to each call
    va_shard,    \* validator: the shard directory under validation
    va_profile,  \* validator: profile, "" for None
    va_strict,   \* validator: strict flag
    va_pc,       \* validate_all: the stage to run next / returned / crashed
    va_errors,   \* self.errors
    va_warnings, \* self.warnings
    va_ran,      \* the stages run so far, in order
    va_checks,   \* the *_ok locals, then report["checks"]
    va_report,   \* the report returned, [made |-> FALSE] before
    va_ret,      \* the boolean returned, "none" before
    va_parsed,   \* the control records the controls stage has parsed
    va_opened,   \* the files validate_hashes has opened to hash them
    as_deps,     \* ingest_check: HAVE_DEPS, the imports succeeded
    as_shard,    \* anti-sybil check: the submission
    as_cache,    \* the cache of known fingerprints given to the check
    as_pc,       \* run_anti_sybil_checks: the step to run next
    as_video,    \* video_check, the result of detect_video_duplicates
    as_controls, \* controls_check, the result of detect_control_duplicates
    as_pre,      \* the result of precheck_shard
    as_out,      \* the result of run_anti_sybil_checks
    aw_in,       \* atomic_write_bytes: dest before the call, len(data), parent
    aw_dest,     \* the file at dest as a reader sees it
    aw_tmp,      \* the temporary file next to dest
    aw_pc        \* atomic_write_bytes: the step to run next

pgVars == <<pg_root, pg_child, pg_links, pg_out, pg_parts>>

exVars == <<ex_ar, ex_caller, ex_links, ex_pc, ex_idx, ex_err, ex_failed, ex_fs, td_pc>>

ucVars == <<uc_file, uc_init, uc_shard, uc_pc, uc_data>>

vaVars == <<va_shard, va_profile, va_strict, va_pc, va_errors, va_warnings,
            va_ran, va_checks, va_report, va_ret, va_parsed, va_opened>>

asVars == <<as_deps, as_shard, as_cache, as_pc, as_video, as_controls, as_pre, as_out>>

awVars == <<aw_in, aw_dest, aw_tmp, aw_pc>>

vars == <<pgVars, exVars, ucVars, vaVars, asVars, awVars>>

\* what an action of one subsystem leaves alone
notPg == <<exVars, ucVars, vaVars, asVars, awVars>>
notEx == <<pgVars, ucVars, vaVars, asVars, awVars>>
notUc == <<pgVars, exVars, vaVars, asVars, awVars>>
notVa == <<pgVars, exVars, ucVars, asVars, awVars>>
notAs == <<pgVars, exVars, ucVars, vaVars, awVars>>
notAw == <<pgVars, exVars, ucVars, vaVars, asVars>>

-----------------------------------------------------------------------------
(* Bounds of the model *)

\* longest candidate path text given to _resolve_under
MaxPathLen == 6

\* largest number of entries (files, directories, others) of an archive
MaxEntries == 3

\* longest list of segments a wrapped candidate is built from
MaxSegments == 3

\* largest number of bytes given to atomic_write_bytes
MaxData == 4

-----------------------------------------------------------------------------
(* Text helpers *)

Alphabet == {"/", ".", "a", "b"}

Texts(n) == UNION {[1..k -> Alphabet] : k \in 0..n}

\* str.startswith
StartsWith(s, pre) ==
    /\ Len(pre) <= Len(s)
    /\ \A i \in 1..Len(pre) : s[i] = pre[i]

IsPrefix(p, q) ==
    /\ Len(p) <= Len(q)
    /\ \A i \in 1..Len(p) : q[i] = p[i]

\* q lies strictly below directory p (component sequences)
StrictlyUnder(q, p) == IsPrefix(p, q) /\ Len(q) > Len(p)

Front(s) == SubSeq(s, 1, Len(s) - 1)

\* the components of s between "/" separators, empty ones included
RECURSIVE SplitFrom(_, _, _)
SplitFrom(s, i, cur) ==
    IF i > Len(s) THEN <<cur>>
    ELSE IF s[i] = "/" THEN <<cur>> \o SplitFrom(s, i + 1, <<>>)
    ELSE SplitFrom(s, i + 1, Append(cur, s[i]))

Split(s) == SplitFrom(s, 1, <<>>)

DotDot == <<".", ".">>
Dot == <<".">>

-----------------------------------------------------------------------------
(* pathlib *)

\* Path(text): a leading "/" makes it absolute; empty and "." components
\* are dropped, ".." components are kept.
PurePath(s) ==
    [abs   |-> Len(s) > 0 /\ s[1] = "/",
     parts |-> SelectSeq(Split(s), LAMBDA c : c # <<>> /\ c # Dot)]

\* root / child: an absolute right operand replaces the left one
JoinPath(p, q) ==
    IF q.abs THEN q ELSE [abs |-> p.abs, parts |-> p.parts \o q.parts]

\* working directory of the process, used by resolve() on a relative path
Cwd == << <<"b">> >>

LinkTarget(links, at) == (CHOOSE l \in links : l.from = at).to

IsLink(links, at) == \E l \in links : l.from = at

\* os.path.realpath on the components: ".." drops the last component
\* (staying at "/" when there is none), every other component is appended
\* and a symbolic link met on the way is replaced by its target.
RECURSIVE Walk(_, _, _, _)
Walk(links, at, rest, i) ==
    IF i > Len(rest) THEN at
    ELSE IF rest[i] = DotDot
         THEN Walk(links, IF at = <<>> THEN at ELSE Front(at), rest, i + 1)
         ELSE LET nxt == Append(at, rest[i])
              IN  Walk(links, IF IsLink(links, nxt) THEN LinkTarget(links, nxt) ELSE nxt,
                       rest, i + 1)

\* Path.resolve(): absolute, canonical, links followed
Resolve(links, p) ==
    [abs |-> TRUE, parts |-> Walk(links, IF p.abs THEN <<>> ELSE Cwd, p.parts, 1)]

RECURSIVE JoinParts(_, _)
JoinParts(parts, i) ==
    IF i > Len(parts) THEN <<>>
    ELSE (IF i > 1 THEN <<"/">> ELSE <<>>) \o parts[i] \o JoinParts(parts, i + 1)

\* str(path)
Str(p) ==
    IF p.abs THEN <<"/">> \o JoinParts(p.parts, 1)
    ELSE IF p.parts = <<>> THEN Dot
    ELSE JoinParts(p.parts, 1)

OsSep == <<"/">>

-----------------------------------------------------------------------------
(* tools/safe_io.py: _resolve_under, safe_resolve_path *)

\* the test of line 14, without the separator: a plausible slip
UnderRootNoSep(dest, root) == StartsWith(Str(dest), Str(root))

\* line 14: str(dest).startswith(str(root) + os.sep)
UnderRoot(dest, root) == StartsWith(Str(dest), Str(root) \o OsSep)

\* _resolve_under on parsed paths: the outcome is the ValueError or the path
ResolveUnder(links, root, child) ==
    LET r    == Resolve(links, root)
        dest == Resolve(links, JoinPath(r, child))
    IN  IF ~UnderRoot(dest, r)
        THEN [kind |-> "unsafe", path |-> dest]
        ELSE [kind |-> "ret", path |-> dest]

\* safe_resolve_path(base_dir, relative_path) = _resolve_under(base_dir, Path(relative_path))
safe_resolve_path(links, base, text) == ResolveUnder(links, PurePath(base), PurePath(text))

\* roots the guard is configured with: plain, nested, relative, and "/"
Roots == { <<"/", "a">>, <<"/", "a", "/", "b">>, <<"a">>, <<"/">> }

\* file systems: no link, or /a/b a link to the directory /b outside /a
LinkSets == { {}, {[from |-> << <<"a">>, <<"b">> >>, to |-> << <<"b">> >>]} }

NoOutcome == [kind |-> "none", path |-> [abs |-> TRUE, parts |-> <<>>]]

\* text segments of test_resolve_under_never_escapes: empty, plain names,
\* "..", and texts holding a separator
Segments ==
    { <<>>, <<"a">>, <<"b">>, <<".", ".">>, <<"/", "a">>, <<"a", "/", "b">>,
      <<"/", "a", "/", "b">> }

SegmentLists == UNION {[1..k -> Segments] : k \in 1..MaxSegments}

\* Path(*parts)
RECURSIVE PathOf(_, _)
PathOf(parts, i) ==
    IF i = 0 THEN PurePath(<<>>)
    ELSE JoinPath(PathOf(parts, i - 1), PurePath(parts[i]))

\* the candidate without the leading "..": a plausible slip of the test
WrappedTrailingOnly(parts) == JoinPath(PathOf(parts, Len(parts)), PurePath(DotDot))

\* test_safe_io.py lines 15-17: Path("..") / Path(*parts) / ".."
Wrapped(parts) ==
    JoinPath(JoinPath(PurePath(DotDot), PathOf(parts, Len(parts))), PurePath(DotDot))

\* the candidate is a text of up to MaxPathLen characters, or a wrapped
\* list of segments
PGInit ==
    /\ pg_root \in Roots
    /\ \/ pg_parts = <<>> /\ pg_child \in Texts(MaxPathLen)
       \/ pg_parts \in SegmentLists /\ pg_child = Str(Wrapped(pg_parts))
    /\ pg_links \in LinkSets
    /\ pg_out = NoOutcome

\* one call safe_resolve_path(pg_root, pg_child)
PGResolve ==
    /\ pg_out.kind = "none"
    /\ pg_out' = safe_resolve_path(pg_links, pg_root, pg_child)
    /\ UNCHANGED <<pg_root, pg_child, pg_links, pg_parts, notPg>>

-----------------------------------------------------------------------------
(* tools/safe_io.py: limits.  The three limits are those of the source;   *)
(* the first two are scaled down (10_000 files, 2 GiB) so that archives   *)
(* of MaxEntries entries and small sizes reach them.                       *)

MAX_FILES == 2
MAX_TOTAL_BYTES == 40
MAX_EXPANSION == 20

-----------------------------------------------------------------------------
(* Archives *)

Txt_f    == <<"f">>
Txt_df   == <<"d", "/", "f">>
Txt_up   == <<".", ".", "/", "e">>
Txt_abs  == <<"/", "e">>
Txt_dot  == <<".">>
Txt_d    == <<"d">>
Txt_bf   == <<"b", "/", "f">>
Txt_g    == <<"g">>
Txt_k    == <<"k">>
Txt_h    == <<"h">>

Entry(n, k, u, c) == [name |-> n, kind |-> k, size |-> u, csize |-> c]

\* entries an archive is made of: plain and nested files, a name with "..",
\* an absolute name, a name that is the destination itself, a directory and
\* a file of the same name, a file below the name that may be a link, a
\* highly compressed file, a large file, an empty stored file, and (TAR) a
\* member that is neither file nor directory
EntryPool ==
    { Entry(Txt_f, "file", 1, 1),   Entry(Txt_df, "file", 2, 1),
      Entry(Txt_up, "file", 1, 1),  Entry(Txt_abs, "file", 1, 1),
      Entry(Txt_dot, "file", 1, 1), Entry(Txt_d, "dir", 0, 0),
      Entry(Txt_d, "file", 1, 1),   Entry(Txt_bf, "file", 1, 1),
      Entry(Txt_g, "file", 21, 1),  Entry(Txt_k, "file", 30, 30),
      Entry(Txt_h, "file", 0, 0),   Entry(Txt_h, "other", 0, 0) }

EntryLists == UNION {[1..n -> EntryPool] : n \in 0..MaxEntries}

Archives ==
    {[fmt |-> f, readable |-> TRUE, entries |-> es] : f \in {"zip", "tar"}, es \in EntryLists}
    \cup {[fmt |-> f, readable |-> FALSE, entries |-> <<>>] : f \in {"zip", "tar"}}

\* zip: [i for i in zf.infolist() if not i.is_dir()]
\* tar: [m for m in tf.getmembers() if m.isreg()]
Files(ar) ==
    IF ar.fmt = "zip"
    THEN SelectSeq(ar.entries, LAMBDA e : e.kind # "dir")
    ELSE SelectSeq(ar.entries, LAMBDA e : e.kind = "file")

RECURSIVE SumSize(_, _)
SumSize(es, i) == IF i > Len(es) THEN 0 ELSE es[i].size + SumSize(es, i + 1)

\* sum(i.compress_size or 1 for i in files)
RECURSIVE SumCompressOr1(_, _)
SumCompressOr1(es, i) ==
    IF i > Len(es) THEN 0
    ELSE (IF es[i].csize = 0 THEN 1 ELSE es[i].csize) + SumCompressOr1(es, i + 1)

\* the compressed bytes the archive really holds for these entries
RECURSIVE SumCompress(_, _)
SumCompress(es, i) == IF i > Len(es) THEN 0 ELSE es[i].csize + SumCompress(es, i + 1)

Max(a, b) == IF a >= b THEN a ELSE b

\* (total_uc / max(total_c, 1.0)) > MAX_EXPANSION, on integers
ExceedsExpansion(uc, c) == uc > MAX_EXPANSION * Max(c, 1)

\* the checks made before the loop over the files; "" when all pass
\* safe_extract_zip lines 25-34
ZipPrecheck(files) ==
    IF Len(files) > MAX_FILES THEN "too many files"
    ELSE IF SumSize(files, 1) > MAX_TOTAL_BYTES THEN "too large"
    ELSE IF ExceedsExpansion(SumSize(files, 1), SumCompressOr1(files, 1))
         THEN "expansion ratio"
    ELSE ""

\* the TAR checks without the limit on the total size
TarPrecheckNoSize(files) ==
    IF Len(files) > MAX_FILES THEN "too many files" ELSE ""

\* safe_extract_tar lines 54-59
TarPrecheck(files) ==
    IF Len(files) > MAX_FILES THEN "too many files"
    ELSE IF SumSize(files, 1) > MAX_TOTAL_BYTES THEN "too large"
    ELSE ""

Precheck(ar) == IF ar.fmt = "zip" THEN ZipPrecheck(Files(ar)) ELSE TarPrecheck(Files(ar))

\* name.startswith("/") or ".." in Path(name).parts
UnsafeName(name) ==
    \/ StartsWith(name, <<"/">>)
    \/ \E i \in 1..Len(PurePath(name).parts) : PurePath(name).parts[i] = DotDot

-----------------------------------------------------------------------------
(* The file system seen by one extraction *)

\* the temporary directory of a TempDir scope and the directory a direct
\* caller passes
TmpDir  == << <<"t">> >>
GivenDir == << <<"a">> >>

\* uri_loader line 86: extract_dir = temp_dir / local_path.stem
DestOf(caller) == IF caller = "scoped" THEN Append(TmpDir, <<"s">>) ELSE GivenDir

DestPath(caller) == [abs |-> TRUE, parts |-> DestOf(caller)]

FileAt(fs, p) == \E n \in fs : n.path = p /\ n.kind \in {"file", "part"}
DirAt(fs, p) == \E n \in fs : n.path = p /\ n.kind = "dir"

Prefixes(p) == {SubSeq(p, 1, i) : i \in 0..Len(p)}

\* directories that exist without the extractor making them
PreDirs(links, caller) ==
    (IF caller = "scoped" THEN Prefixes(TmpDir) ELSE Prefixes(GivenDir))
        \cup UNION {Prefixes(l.to) : l \in links}

\* the guard is skipped: the joined path is used as it is
TargetUnguarded(links, dest, name) ==
    [kind |-> "ret", path |-> JoinPath(dest, PurePath(name))]

\* target = _resolve_under(dest_dir, Path(name))
Target(links, dest, name) == ResolveUnder(links, dest, PurePath(name))

\* One pass of the loop body for entry e, the k-th file, on file system fs.
\* io says whether the copy completes or stops with an I/O error.
\* Result: the new file system and the error raised ("" when none).
ExtractOne(fs, links, caller, e, k, io) ==
    IF UnsafeName(e.name) THEN [fs |-> fs, err |-> "unsafe member"]
    ELSE
    LET t == Target(links, DestPath(caller), e.name) IN
    IF t.kind # "ret" THEN [fs |-> fs, err |-> "unsafe path"]
    ELSE
    LET \* where the operating system puts the file: links are followed
        at     == Resolve(links, t.path).parts
        parent == Front(at)
        pre    == PreDirs(links, caller)
        newdirs == {[path |-> d, kind |-> "dir", by |-> k] :
                       d \in {q \in Prefixes(parent) : q \notin pre /\ ~DirAt(fs, q)}}
    IN  \* target.parent.mkdir(parents=True, exist_ok=True)
        IF \E q \in Prefixes(parent) : FileAt(fs, q)
        THEN [fs |-> fs, err |-> "mkdir"]
        \* open(target, "wb")
        ELSE IF DirAt(fs \cup newdirs, at) \/ at \in pre
        THEN [fs |-> fs \cup newdirs, err |-> "open"]
        \* shutil.copyfileobj
        ELSE [fs  |-> {n \in fs : n.path # at} \cup newdirs \cup
                      {[path |-> at, kind |-> IF io = "ok" THEN "file" ELSE "part", by |-> k]},
              err |-> IF io = "ok" THEN "" ELSE "io"]

-----------------------------------------------------------------------------
(* tools/safe_io.py: safe_extract_zip, safe_extract_tar, TempDir *)

ExInit ==
    /\ ex_ar \in Archives
    /\ \/ ex_caller = "direct" /\ ex_links \in LinkSets /\ td_pc = "none"
       \/ ex_caller = "scoped" /\ ex_links = {} /\ td_pc = "new"
    /\ ex_pc = "idle"
    /\ ex_idx = 1
    /\ ex_err = ""
    /\ ex_failed = 0
    /\ ex_fs = {}

\* TempDir.__init__: tempfile.TemporaryDirectory creates the directory
TempDirInit ==
    /\ td_pc = "new"
    /\ td_pc' = "made"
    /\ ex_fs' = ex_fs \cup {[path |-> TmpDir, kind |-> "dir", by |-> -1]}
    /\ UNCHANGED <<ex_ar, ex_caller, ex_links, ex_pc, ex_idx, ex_err, ex_failed, notEx>>

\* TempDir.__enter__, then the download of the archive into the directory
\* (uri_loader lines 79-82), which may fail
TempDirEnter ==
    /\ td_pc = "made"
    /\ td_pc' = "body"
    /\ \E dl \in {"ok", "fail"} :
          IF dl = "ok"
          THEN /\ ex_fs' = ex_fs \cup {[path |-> Append(TmpDir, <<"z">>), kind |-> "file", by |-> -1]}
               /\ UNCHANGED <<ex_pc, ex_err>>
          ELSE /\ ex_pc' = "raised"
               /\ ex_err' = "download"
               /\ UNCHANGED ex_fs
    /\ UNCHANGED <<ex_ar, ex_caller, ex_links, ex_idx, ex_failed, notEx>>

\* the start of safe_extract_zip / safe_extract_tar: the destination is made,
\* the archive is opened and the limits are checked (lines 20-34, 49-59)
ExtractBegin ==
    /\ ex_pc = "idle"
    /\ td_pc \in {"none", "body"}
    /\ LET dest == DestOf(ex_caller)
           made == IF dest \in PreDirs(ex_links, ex_caller) \/ DirAt(ex_fs, dest)
                   THEN {} ELSE {[path |-> dest, kind |-> "dir", by |-> 0]}
           err  == IF ~ex_ar.readable THEN "bad archive" ELSE Precheck(ex_ar)
       IN  /\ ex_fs' = ex_fs \cup made
           /\ ex_err' = err
           /\ ex_pc' = IF err = "" THEN "loop" ELSE "raised"
    /\ UNCHANGED <<ex_ar, ex_caller, ex_links, ex_idx, ex_failed, td_pc, notEx>>

\* a loop that logs the error of an entry and goes on with the next one
AfterEntrySkipping(err, idx, failed) ==
    [pc |-> "loop", idx |-> idx + 1, failed |-> IF err = "" THEN failed ELSE idx]

\* where the loop stands after entry idx: an exception leaves the loop and
\* the function, nothing in safe_extract_* catches it
AfterEntry(err, idx, failed) ==
    IF err = ""
    THEN [pc |-> "loop", idx |-> idx + 1, failed |-> failed]
    ELSE [pc |-> "raised", idx |-> idx, failed |-> idx]

\* one iteration of "for i in files" (lines 36-45, 61-69)
ExtractEntry ==
    /\ ex_pc = "loop"
    /\ ex_idx <= Len(Files(ex_ar))
    /\ \E io \in {"ok", "fail"} :
          LET r == ExtractOne(ex_fs, ex_links, ex_caller, Files(ex_ar)[ex_idx], ex_idx, io)
              a == AfterEntry(r.err, ex_idx, ex_failed)
          IN  /\ ex_fs' = r.fs
              /\ ex_err' = r.err
              /\ ex_pc' = a.pc
              /\ ex_idx' = a.idx
              /\ ex_failed' = a.failed
    /\ UNCHANGED <<ex_ar, ex_caller, ex_links, td_pc, notEx>>

\* the loop is over: the function returns None
ExtractReturn ==
    /\ ex_pc = "loop"
    /\ ex_idx > Len(Files(ex_ar))
    /\ ex_pc' = "returned"
    /\ UNCHANGED <<ex_ar, ex_caller, ex_links, ex_idx, ex_err, ex_failed, ex_fs, td_pc, notEx>>

\* the body of the TempDir scope is interrupted (timeout, KeyboardInterrupt):
\* an exception is raised at the point the body has reached
Cancel ==
    /\ td_pc = "body"
    /\ ex_pc \in {"idle", "loop"}
    /\ ex_pc' = "raised"
    /\ ex_err' = "cancelled"
    /\ UNCHANGED <<ex_ar, ex_caller, ex_links, ex_idx, ex_failed, ex_fs, td_pc, notEx>>

\* __exit__ that cleans up only when the body raised nothing
CleanupUnlessRaised(fs, raised) ==
    IF raised THEN fs ELSE {n \in fs : ~IsPrefix(TmpDir, n.path)}

\* TempDir.__exit__(*exc): self._td.cleanup() removes the directory and
\* all below it, whatever exc is
Cleanup(fs, raised) == {n \in fs : ~IsPrefix(TmpDir, n.path)}

\* leaving the with block, by return or by exception
TempDirExit ==
    /\ td_pc = "body"
    /\ ex_pc \in {"raised", "returned"}
    /\ td_pc' = "exited"
    /\ ex_fs' = Cleanup(ex_fs, ex_pc = "raised")
    /\ UNCHANGED <<ex_ar, ex_caller, ex_links, ex_pc, ex_idx, ex_err, ex_failed, notEx>>

-----------------------------------------------------------------------------
(* gap_agent/dedupe.py: update_cache, run by concurrent admissions *)

\* the concurrent calls of update_cache on one cache file
Procs == {1, 2}

\* cache_data = {"video_hashes": [], "control_hashes": []}
EmptyCache == [video_hashes |-> <<>>, control_hashes |-> <<>>]

\* A cache file: state "absent", "ok" (a complete JSON document, data) or
\* "bad" (empty after truncation, or a document cut short or followed by
\* the tail of a longer one); len stands for its length in bytes.
Bytes(data) == 1 + Len(data.video_hashes) + Len(data.control_hashes)

AbsentFile == [state |-> "absent", data |-> EmptyCache, len |-> 0]
OkFile(data) == [state |-> "ok", data |-> data, len |-> Bytes(data)]
BadFile(n) == [state |-> "bad", data |-> EmptyCache, len |-> n]

\* A shard as update_cache sees it: video "none" (no video.* file, or no
\* OpenCV), "bad" (extract_keyframes raises) or "ok" with the perceptual
\* hashes of its key frames; feat: the SimHash of its controls, if any
\* feature was extracted.
ShardPool ==
    { [video |-> "ok",   frames |-> <<3>>,    feat |-> <<4>>],
      [video |-> "ok",   frames |-> <<5, 6>>, feat |-> <<7>>],
      [video |-> "ok",   frames |-> <<3, 5>>, feat |-> <<>>],
      [video |-> "none", frames |-> <<>>,     feat |-> <<8>>],
      [video |-> "bad",  frames |-> <<>>,     feat |-> <<4>>] }

InitialCaches ==
    { AbsentFile,
      OkFile(EmptyCache),
      OkFile([video_hashes |-> <<1>>, control_hashes |-> <<2>>]),
      OkFile([video_hashes |-> <<1, 3>>, control_hashes |-> <<2, 7>>]),
      BadFile(0) }

InSeq(x, s) == \E i \in 1..Len(s) : s[i] = x

\* for h in hs: if h not in lst: lst.append(h)
RECURSIVE AppendNew(_, _, _)
AppendNew(lst, hs, i) ==
    IF i > Len(hs) THEN lst
    ELSE AppendNew(IF InSeq(hs[i], lst) THEN lst ELSE Append(lst, hs[i]), hs, i + 1)

\* lines 486-503: the shard's hashes are added to cache_data
Merged(data, shard) ==
    [video_hashes   |-> AppendNew(data.video_hashes, shard.frames, 1),
     control_hashes |-> AppendNew(data.control_hashes, shard.feat, 1)]

UCInit ==
    /\ uc_file \in InitialCaches
    /\ uc_init = uc_file
    /\ uc_shard \in {f \in [Procs -> ShardPool] : f[1] # f[2]}
    /\ uc_pc = [p \in Procs |-> "start"]
    /\ uc_data = [p \in Procs |-> EmptyCache]

\* lines 476-480: the existing cache is loaded; json.load raises on a file
\* that is not a complete document and line 512 turns that into False
UCLoad(p) ==
    /\ uc_pc[p] = "start"
    /\ CASE uc_file.state = "absent" ->
              /\ uc_data' = [uc_data EXCEPT ![p] = EmptyCache]
              /\ uc_pc' = [uc_pc EXCEPT ![p] = "loaded"]
         [] uc_file.state = "ok" ->
              /\ uc_data' = [uc_data EXCEPT ![p] = uc_file.data]
              /\ uc_pc' = [uc_pc EXCEPT ![p] = "loaded"]
         [] uc_file.state = "bad" ->
              /\ uc_pc' = [uc_pc EXCEPT ![p] = "false"]
              /\ UNCHANGED uc_data
    /\ UNCHANGED <<uc_file, uc_init, uc_shard, notUc>>

\* lines 483-503: the hashes of the shard are computed and appended;
\* extract_keyframes raising ends the call with False
UCMerge(p) ==
    /\ uc_pc[p] = "loaded"
    /\ IF uc_shard[p].video = "bad"
       THEN /\ uc_pc' = [uc_pc EXCEPT ![p] = "false"]
            /\ UNCHANGED uc_data
       ELSE /\ uc_data' = [uc_data EXCEPT ![p] = Merged(uc_data[p], uc_shard[p])]
            /\ uc_pc' = [uc_pc EXCEPT ![p] = "merged"]
    /\ UNCHANGED <<uc_file, uc_init, uc_shard, notUc>>

\* lines 506-507: open(cache_path, 'w') creates the file or truncates it
UCOpen(p) ==
    /\ uc_pc[p] = "merged"
    /\ uc_file' = BadFile(0)
    /\ uc_pc' = [uc_pc EXCEPT ![p] = "opened"]
    /\ UNCHANGED <<uc_init, uc_shard, uc_data, notUc>>

\* What the file holds after a call has written its document from offset 0
\* and closed: bytes another call wrote beyond its end stay behind it.
Written(file, data) ==
    IF file.len > Bytes(data) THEN BadFile(file.len) ELSE OkFile(data)

\* lines 508-510: json.dump and the close of the file, then return True; a
\* failing write leaves a document cut short and the call returns False
UCDump(p) ==
    /\ uc_pc[p] = "opened"
    /\ \E io \in {"ok", "fail"} :
          IF io = "ok"
          THEN /\ uc_file' = Written(uc_file, uc_data[p])
               /\ uc_pc' = [uc_pc EXCEPT ![p] = "true"]
          ELSE /\ uc_file' = BadFile(Max(uc_file.len, 1))
               /\ uc_pc' = [uc_pc EXCEPT ![p] = "false"]
    /\ UNCHANGED <<uc_init, uc_shard, uc_data, notUc>>

-----------------------------------------------------------------------------
(* tools/validate.py: the shard under validation *)

Msg(tag, arg) == <<tag, arg>>

MetaFields ==
    <<"schema_version", "session_id", "title", "capture", "display", "timing",
      "privacy", "rights">>

AllOk == [f \in {MetaFields[i] : i \in 1..Len(MetaFields)} |-> "ok"]

\* meta.json.  doc: "object", or "badjson" / "notobject"; field: each required
\* field "ok", "missing" or "wrong" (present with another type), and for
\* schema_version also "other" (a string that is not "0.2.0"); profile: the
\* "profile" entry ("absent", "owl" for wayfarer-owl*, "other", "notstr");
\* res: display matches 1920x1080 at 60 fps or not; mic: privacy.mic_recorded
\* is true; cfr: video.cfr_enforced; bitrate: video.bitrate_mbps "none",
\* "low" (below 20) or "ok".
Meta(doc, field, profile, res, mic, cfr, bitrate) ==
    [doc |-> doc, field |-> field, profile |-> profile, res |-> res,
     mic |-> mic, cfr |-> cfr, bitrate |-> bitrate]

MetaPool ==
    { Meta("object", AllOk, "owl", "1080p60", FALSE, TRUE, "ok"),
      Meta("object", AllOk, "absent", "other", TRUE, FALSE, "low"),
      Meta("object", [AllOk EXCEPT !["session_id"] = "missing", !["title"] = "wrong"],
           "other", "1080p60", FALSE, TRUE, "none"),
      Meta("object", [AllOk EXCEPT !["display"] = "wrong"], "owl", "other", FALSE, TRUE, "ok"),
      Meta("object", [AllOk EXCEPT !["schema_version"] = "other", !["rights"] = "missing"],
           "owl", "1080p60", FALSE, TRUE, "ok"),
      Meta("badjson", AllOk, "owl", "1080p60", FALSE, TRUE, "ok"),
      Meta("object", [AllOk EXCEPT !["privacy"] = "wrong"], "owl", "1080p60", FALSE, TRUE, "ok") }

\* The controls file.  parses: every line is JSON / the table can be read;
\* rows: the number of records; cols: the columns (keys) present, "ts"
\* standing for the timestamp column of the format (t_us, ts_us); ts: the
\* timestamps; numeric: they are numbers; big: the file is larger than the
\* byte cap; known: the type of the first event is key, mouse or pad.
Controls(parses, rows, cols, ts, numeric, big, known) ==
    [parses |-> parses, rows |-> rows, cols |-> cols, ts |-> ts,
     numeric |-> numeric, big |-> big, known |-> known]

ControlsPool ==
    { Controls(TRUE, 3, {"ts", "type"}, <<100000, 125000, 150000>>, TRUE, FALSE, TRUE),
      Controls(TRUE, 3, {"ts", "player_id", "device"}, <<100, 200, 300>>, TRUE, FALSE, FALSE),
      Controls(TRUE, 3, {"ts", "type"}, <<100, 200, 150>>, TRUE, FALSE, TRUE),
      Controls(TRUE, 3, {"ts", "type"}, <<100, 200, 200>>, TRUE, FALSE, TRUE),
      Controls(TRUE, 2, {"type"}, <<>>, TRUE, FALSE, TRUE),
      Controls(TRUE, 2, {"ts", "type"}, <<100, 200>>, FALSE, FALSE, TRUE),
      Controls(TRUE, 4, {"ts", "type"}, <<1, 2, 3, 4>>, TRUE, FALSE, TRUE),
      Controls(FALSE, 0, {}, <<>>, TRUE, TRUE, FALSE),
      Controls(TRUE, 4, {"ts", "type", "player_id", "device"}, <<10000, 30000, 50000, 60000>>,
               TRUE, TRUE, TRUE) }

\* hashes.json.  load: json.load succeeds; sha: the "sha256" section is
\* "missing", a "map", or not a mapping ("notmap"), or the document is a
\* scalar ("scalar"); items: per manifest entry, what the name refers to
\* ("file", "absent", "dir") and whether the recorded digest matches.
Hashes(load, sha, items) == [load |-> load, sha |-> sha, items |-> items]

Item(name, at, match) == [name |-> name, at |-> at, match |-> match]

HashesPool ==
    { Hashes(TRUE, "map", <<Item("meta.json", "file", TRUE), Item("video.ivf", "file", TRUE)>>),
      Hashes(TRUE, "map", <<Item("meta.json", "file", FALSE), Item("labels.jsonl", "absent", FALSE)>>),
      Hashes(TRUE, "map", <<Item("sub", "dir", FALSE)>>),
      Hashes(TRUE, "map", <<Item("sub", "dir", FALSE), Item("meta.json", "file", FALSE)>>),
      Hashes(TRUE, "map", <<Item("meta.json", "file", TRUE), Item("../b", "file", FALSE)>>),
      Hashes(TRUE, "map", <<Item("/b", "file", TRUE), Item("../c", "absent", FALSE)>>),
      Hashes(TRUE, "missing", <<>>),
      Hashes(TRUE, "notmap", <<>>),
      Hashes(FALSE, "missing", <<>>) }

FilesPool ==
    { {"meta.json", "hashes.json", "video.ivf", "controls.parquet"},
      {"meta.json", "hashes.json", "video.mkv", "controls.jsonl"},
      {"meta.json", "hashes.json", "video.ivf", "video.mkv", "controls.jsonl"},
      {"hashes.json", "video.ivf", "controls.jsonl"},
      {"meta.json", "hashes.json", "controls.parquet"},
      {"meta.json", "hashes.json", "video.mkv"} }

\* a shard directory: the files present, whether its video files exceed
\* max_video_bytes, and the content of the three documents
Shards ==
    [files : FilesPool, videoBig : BOOLEAN, meta : MetaPool,
     controls : ControlsPool, hashes : HashesPool]

Profiles == {"", "wayfarer-owl", "wayfarer-owl-4k", "custom"}

\* "wayfarer-owl" in self.profile
IsOwl(profile) == profile \in {"wayfarer-owl", "wayfarer-owl-4k"}

\* The outcome of a stage: the messages it appends, whether an exception
\* leaves it uncaught, and what it returns: "false" / "true" outright, or
\* "count" for len(self.errors) == 0.
Outcome(errs, warns, crash, ret) ==
    [errs |-> errs, warns |-> warns, crash |-> crash, ret |-> ret]

\* configured limit on the lines of controls.jsonl (5_000_000, scaled down)
max_jsonl_lines == 3

-----------------------------------------------------------------------------
(* tools/validate.py: the five stages *)

Cond(b, msgs) == IF b THEN msgs ELSE <<>>

\* validate_file_structure, lines 58-103
FileStructure(sh, profile) ==
    LET has(f)   == f \in sh.files
        required == IF IsOwl(profile) THEN "controls.jsonl" ELSE "controls.parquet"
        videos   == SelectSeq(<<"video.ivf", "video.mkv">>, has)
        alt      == SelectSeq(<<"controls.parquet", "controls.jsonl">>, has)
        e1 == Cond(~has("meta.json"), <<Msg("missing file", "meta.json")>>)
              \o Cond(~has("hashes.json"), <<Msg("missing file", "hashes.json")>>)
        e2 == IF Len(videos) = 0 THEN <<Msg("no video", "")>>
              ELSE IF Len(videos) > 1 THEN <<>>
              ELSE Cond(sh.videoBig, <<Msg("too large", videos[1])>>)
        w2 == Cond(Len(videos) > 1, <<Msg("multiple video", "")>>)
        e3 == Cond(~has(required) /\ Len(alt) = 0, <<Msg("no controls", "")>>)
        w3 == Cond(~has(required) /\ Len(alt) > 0 /\ profile # "",
                   <<Msg("controls format", profile)>>)
    IN  {Outcome(e1 \o e2 \o e3, w2 \o w3, FALSE, "count")}

\* GAPLoader.load_meta raises: no file, no JSON object, or a schema_version
\* other than "0.2.0" (loader.py lines 27-45)
LoadMetaRaises(sh) ==
    \/ "meta.json" \notin sh.files
    \/ sh.meta.doc # "object"
    \/ sh.meta.field["schema_version"] # "ok"

\* the loop over required_fields, lines 125-129
RECURSIVE FieldErrors(_, _)
FieldErrors(field, i) ==
    IF i > Len(MetaFields) THEN <<>>
    ELSE (CASE field[MetaFields[i]] = "missing" -> <<Msg("meta missing", MetaFields[i])>>
            [] field[MetaFields[i]] = "wrong" -> <<Msg("meta type", MetaFields[i])>>
            [] OTHER -> <<>>)
         \o FieldErrors(field, i + 1)

\* validate_profile_meta, lines 141-163: errors, warnings, and whether an
\* AttributeError is raised on the way (display or privacy not an object,
\* profile not a string)
ProfileMeta(m, profile) ==
    IF ~IsOwl(profile) THEN Outcome(<<>>, <<>>, FALSE, "count")
    ELSE IF profile = "wayfarer-owl" /\ m.field["display"] = "wrong"
    THEN Outcome(<<>>, <<>>, TRUE, "count")
    ELSE
    LET off == m.field["display"] # "ok" \/ m.res # "1080p60"
        w1 == Cond(profile = "wayfarer-owl" /\ off,
                   <<Msg("resolution", ""), Msg("fps", "")>>)
    IN  IF m.profile = "notstr" THEN Outcome(<<>>, w1, TRUE, "count")
        ELSE
        LET w2 == Cond(m.profile = "absent", <<Msg("profile missing", "")>>)
                  \o Cond(m.profile = "other", <<Msg("profile mismatch", "")>>)
        IN  IF m.field["privacy"] = "wrong" THEN Outcome(<<>>, w1 \o w2, TRUE, "count")
            ELSE Outcome(Cond(m.field["privacy"] = "ok" /\ m.mic, <<Msg("mic recorded", "")>>),
                         w1 \o w2, FALSE, "count")

\* validate_meta, lines 105-139
ValidateMeta(sh, profile) ==
    IF LoadMetaRaises(sh)
    THEN {Outcome(<<Msg("load meta", "")>>, <<>>, FALSE, "false")}
    ELSE
    LET e1 == FieldErrors(sh.meta.field, 1)
        e2 == Cond(sh.meta.field["schema_version"] # "ok", <<Msg("unsupported version", "")>>)
        pm == IF profile # "" THEN ProfileMeta(sh.meta, profile)
              ELSE Outcome(<<>>, <<>>, FALSE, "count")
    IN  {Outcome(e1 \o e2 \o pm.errs, pm.warns, pm.crash, "count")}

\* pandas is_monotonic_increasing: no value is smaller than the one before
NonDecreasing(ts) == \A i \in 1..(Len(ts) - 1) : ts[i] <= ts[i + 1]

Abs(x) == IF x < 0 THEN -x ELSE x

\* lines 228-237 on integers: expected = time_diff * 60 / 10^6 samples,
\* warn when abs(actual - expected) / expected > 0.1; a zero expected count
\* divides to infinity, a negative one to a negative number
Drift(rows, ts) ==
    LET diff == ts[Len(ts)] - ts[1]
    IN  IF diff = 0 THEN TRUE
        ELSE IF diff < 0 THEN FALSE
        ELSE 10 * Abs(rows * 1000000 - 60 * diff) > 60 * diff

\* GAPLoader.load_controls raises (loader.py lines 47-65)
LoadControlsRaises(c) ==
    \/ ~c.parses
    \/ ~({"ts", "player_id", "device"} \subseteq c.cols)
    \/ c.numeric /\ ~NonDecreasing(c.ts)

\* the try block of the JSONL branch raises, lines 180-194 and 205-207
LoadJsonlRaises(c) ==
    \/ c.big
    \/ c.rows > max_jsonl_lines
    \/ ~c.parses

\* The records the stage parses: pd.read_parquet reads the whole table
\* (loader.py line 53); the JSONL loop is not entered for a file over the
\* byte cap and raises on the line after max_jsonl_lines before parsing it
\* (lines 182-193).
ParsedRecords(sh) ==
    LET c == sh.controls IN
    IF "controls.parquet" \in sh.files THEN (IF c.parses THEN c.rows ELSE 0)
    ELSE IF "controls.jsonl" \in sh.files
    THEN (IF c.big THEN 0 ELSE IF c.rows > max_jsonl_lines THEN max_jsonl_lines ELSE c.rows)
    ELSE 0

\* validate_controls, lines 165-242
ValidateControls(sh, profile) ==
    LET c == sh.controls IN
    IF "controls.parquet" \in sh.files /\ LoadControlsRaises(c)
    THEN {Outcome(<<Msg("load controls", "controls.parquet")>>, <<>>, FALSE, "false")}
    ELSE IF "controls.parquet" \notin sh.files /\ "controls.jsonl" \in sh.files
            /\ LoadJsonlRaises(c)
    THEN {Outcome(<<Msg("load controls", "controls.jsonl")>>, <<>>, FALSE, "false")}
    ELSE IF "controls.parquet" \notin sh.files /\ "controls.jsonl" \in sh.files
            /\ "ts" \notin c.cols
    THEN {Outcome(<<Msg("jsonl without t_us", "")>>, <<>>, FALSE, "false")}
    ELSE IF "controls.parquet" \notin sh.files /\ "controls.jsonl" \notin sh.files
    THEN {Outcome(<<Msg("no controls file", "")>>, <<>>, FALSE, "false")}
    ELSE
    LET need == IF IsOwl(profile) THEN <<"type">> ELSE <<"player_id", "device">>
        miss == SelectSeq(need, LAMBDA col : col \notin c.cols)
        e1   == [i \in 1..Len(miss) |-> Msg("controls column", miss[i])]
        qat  == <<Msg("not monotonic", "")>>
    IN  IF c.numeric
        THEN {Outcome(e1 \o Cond(~NonDecreasing(c.ts), qat),
                      Cond(c.rows > 1 /\ Drift(c.rows, c.ts), <<Msg("drift", "")>>),
                      FALSE, "count")}
        \* values that are not numbers: the order test may say either (in
        \* load_controls too), and the subtraction of line 229 raises
        \* TypeError when there are two rows
        ELSE {Outcome(e1 \o q, <<>>, c.rows > 1, "count") : q \in {<<>>, qat}}
             \cup (IF "controls.parquet" \in sh.files
                   THEN {Outcome(<<Msg("load controls", "controls.parquet")>>, <<>>, FALSE, "false")}
                   ELSE {})

\* the loop over the manifest, lines 311-325: messages up to a directory
\* entry, on which open() raises
RECURSIVE HashItems(_, _, _)
HashItems(items, i, acc) ==
    IF i > Len(items) THEN acc
    ELSE CASE items[i].at = "absent" ->
                HashItems(items, i + 1,
                          [acc EXCEPT !.warns = Append(@, Msg("hash entry absent", items[i].name))])
           [] items[i].at = "dir" -> [acc EXCEPT !.crash = TRUE]
           [] OTHER ->
                HashItems(items, i + 1,
                          IF items[i].match THEN acc
                          ELSE [acc EXCEPT !.errs = Append(@, Msg("hash mismatch", items[i].name))])

\* the directory the validator was built on: self.shard_path
ShardDir == [abs |-> TRUE, parts |-> << <<"a">> >>]

\* Path(filename) for a key of the manifest: a plain name is one component
KeyPath(name) ==
    CASE name = "../b" -> PurePath(<<".", ".", "/", "b">>)
      [] name = "../c" -> PurePath(<<".", ".", "/", "c">>)
      [] name = "/b" -> PurePath(<<"/", "b">>)
      [] OTHER -> [abs |-> FALSE, parts |-> << <<name>> >>]

\* line 312 and the open of line 319: self.shard_path / filename, and the
\* file the operating system opens for that path
HashedPath(name) == Resolve({}, JoinPath(ShardDir, KeyPath(name)))

\* the files opened by the loop of lines 311-325: absent names are skipped
\* (line 313), open() raises on a directory
RECURSIVE OpenedBy(_, _, _)
OpenedBy(items, i, acc) ==
    IF i > Len(items) THEN acc
    ELSE CASE items[i].at = "absent" -> OpenedBy(items, i + 1, acc)
           [] items[i].at = "dir" -> acc
           [] OTHER -> OpenedBy(items, i + 1, acc \cup {HashedPath(items[i].name)})

\* the files validate_hashes opens
HashedFiles(sh) ==
    LET h == sh.hashes IN
    IF "hashes.json" \in sh.files /\ h.load /\ h.sha = "map"
    THEN OpenedBy(h.items, 1, {})
    ELSE {}

\* validate_hashes, lines 298-327
ValidateHashes(sh) ==
    LET h == sh.hashes IN
    IF "hashes.json" \notin sh.files \/ ~h.load
    THEN {Outcome(<<Msg("load hashes", "")>>, <<>>, FALSE, "false")}
    ELSE IF h.sha = "scalar" THEN {Outcome(<<>>, <<>>, TRUE, "count")}
    ELSE IF h.sha = "missing"
    THEN {Outcome(<<Msg("no sha256 section", "")>>, <<>>, FALSE, "false")}
    ELSE IF h.sha = "notmap" THEN {Outcome(<<>>, <<>>, TRUE, "count")}
    ELSE {HashItems(h.items, 1, Outcome(<<>>, <<>>, FALSE, "count"))}

\* validate_owl_profile, lines 254-296
OwlProfile(sh, strict) ==
    LET m  == sh.meta
        c  == sh.controls
        low == Msg("bitrate", "")
        w1 == IF LoadMetaRaises(sh) THEN <<Msg("owl video unchecked", "")>>
              ELSE Cond(~m.cfr, <<Msg("cfr", "")>>)
                   \o Cond(m.bitrate = "low" /\ ~strict, <<low>>)
        e1 == Cond(~LoadMetaRaises(sh) /\ m.bitrate = "low" /\ strict, <<low>>)
        jsonl  == "controls.jsonl" \in sh.files
        unread == ~c.parses \/ c.rows = 0
        e2 == Cond(jsonl /\ ~unread,
                   Cond("type" \notin c.cols, <<Msg("owl controls", "type")>>)
                   \o Cond("ts" \notin c.cols, <<Msg("owl controls", "t_us")>>))
        w2 == Cond(jsonl /\ unread, <<Msg("owl controls unchecked", "")>>)
              \o Cond(jsonl /\ ~unread /\ ("type" \notin c.cols \/ ~c.known),
                      <<Msg("event type", "")>>)
    IN  Outcome(e1 \o e2, w1 \o w2, FALSE, "count")

\* validate_profile_specific, lines 244-252
ProfileSpecific(sh, profile, strict) ==
    IF profile = "" THEN {Outcome(<<>>, <<>>, FALSE, "true")}
    ELSE IF IsOwl(profile) THEN {OwlProfile(sh, strict)}
    ELSE {Outcome(<<>>, <<>>, FALSE, "true")}

-----------------------------------------------------------------------------
(* tools/validate.py: GAPValidator.validate_all *)

Stages == <<"file_structure", "meta", "controls", "hashes", "profile_specific">>

NoChecks == [st \in {Stages[i] : i \in 1..Len(Stages)} |-> "unset"]

NoReport == [made |-> FALSE]

VAInit ==
    /\ va_shard \in Shards
    /\ va_profile \in Profiles
    /\ va_strict \in BOOLEAN
    /\ va_pc = "file_structure"
    /\ va_errors = <<>>
    /\ va_warnings = <<>>
    /\ va_ran = <<>>
    /\ va_checks = NoChecks
    /\ va_report = NoReport
    /\ va_ret = "none"
    /\ va_parsed = 0
    /\ va_opened = {}

\* the stage after st in validate_all, lines 335-339
StageAfter(st) ==
    CASE st = "file_structure" -> "meta"
      [] st = "meta" -> "controls"
      [] st = "controls" -> "hashes"
      [] st = "hashes" -> "profile_specific"
      [] st = "profile_specific" -> "report"

\* "validate_x() if file_structure_ok else False": meta, controls and
\* hashes are run when file_structure returned True, lines 336-338
Due(st, checks) ==
    IF st \in {"meta", "controls", "hashes"} THEN checks["file_structure"] = TRUE ELSE TRUE

\* stages ending in "return True" whatever they recorded: a plausible slip
ReturnedTrueAtEnd(o, errs) == o.ret # "false"

\* the value a stage call gives its *_ok local
Returned(o, errs) ==
    CASE o.ret = "false" -> FALSE
      [] o.ret = "true" -> TRUE
      [] OTHER -> Len(errs) = 0

\* one stage call of validate_all: o is the outcome of the stage
RunStage(st, o) ==
    /\ va_errors' = va_errors \o o.errs
    /\ va_warnings' = va_warnings \o o.warns
    /\ va_ran' = Append(va_ran, st)
    /\ IF o.crash
       THEN /\ va_pc' = "crashed"
            /\ UNCHANGED va_checks
       ELSE /\ va_pc' = StageAfter(st)
            /\ va_checks' = [va_checks EXCEPT ![st] = Returned(o, va_errors \o o.errs)]
    /\ va_parsed' = IF st = "controls" THEN ParsedRecords(va_shard) ELSE va_parsed
    /\ va_opened' = IF st = "hashes" THEN HashedFiles(va_shard) ELSE va_opened
    /\ UNCHANGED <<va_shard, va_profile, va_strict, va_report, va_ret, notVa>>

\* the conditional expression gives False without calling the stage
SkipStage(st) ==
    /\ va_pc' = StageAfter(st)
    /\ va_checks' = [va_checks EXCEPT ![st] = FALSE]
    /\ UNCHANGED <<va_shard, va_profile, va_strict, va_errors, va_warnings, va_ran,
                   va_report, va_ret, va_parsed, va_opened, notVa>>

\* line 335
VFileStructure ==
    /\ va_pc = "file_structure"
    /\ \E o \in FileStructure(va_shard, va_profile) : RunStage("file_structure", o)

\* line 336
VMeta ==
    /\ va_pc = "meta"
    /\ IF Due("meta", va_checks)
       THEN \E o \in ValidateMeta(va_shard, va_profile) : RunStage("meta", o)
       ELSE SkipStage("meta")

\* line 337
VControls ==
    /\ va_pc = "controls"
    /\ IF Due("controls", va_checks)
       THEN \E o \in ValidateControls(va_shard, va_profile) : RunStage("controls", o)
       ELSE SkipStage("controls")

\* line 338
VHashes ==
    /\ va_pc = "hashes"
    /\ IF Due("hashes", va_checks)
       THEN \E o \in ValidateHashes(va_shard) : RunStage("hashes", o)
       ELSE SkipStage("hashes")

\* line 339
VProfileSpecific ==
    /\ va_pc = "profile_specific"
    /\ \E o \in ProfileSpecific(va_shard, va_profile, va_strict) :
          RunStage("profile_specific", o)

\* is_valid treats a run with warnings as invalid: a plausible slip
IsValidNoWarnings(errors, warnings) == Len(errors) = 0 /\ Len(warnings) = 0

\* line 342: is_valid = len(self.errors) == 0
IsValid(errors, warnings) == Len(errors) = 0

\* lines 342-367: the report is built and returned with is_valid.  The
\* sync statistics are added when controls and meta passed and
\* controls.parquet exists, unless computing them raises.
VReport ==
    /\ va_pc = "report"
    /\ \E sync \in BOOLEAN :
          /\ sync => /\ va_checks["controls"] = TRUE
                     /\ va_checks["meta"] = TRUE
                     /\ "controls.parquet" \in va_shard.files
          /\ va_report' = [made |-> TRUE,
                           valid |-> IsValid(va_errors, va_warnings),
                           profile |-> va_profile,
                           errors |-> va_errors,
                           warnings |-> va_warnings,
                           checks |-> va_checks,
                           sync_stats |-> sync]
    /\ va_ret' = IsValid(va_errors, va_warnings)
    /\ va_pc' = "returned"
    /\ UNCHANGED <<va_shard, va_profile, va_strict, va_errors, va_warnings, va_ran,
                   va_checks, va_parsed, va_opened, notVa>>

-----------------------------------------------------------------------------
(* gap_agent/dedupe.py: duplicate detection; tools/ingest_check.py: score *)

\* A fingerprint is a 64-bit integer, modelled as the set of the positions
\* of its 1 bits; Low(n) is the integer 2^n - 1.
Low(n) == 0..(n - 1)

\* a key frame on which phash raises
BadFrame == {-1}

\* hamming_distance: bin(hash1 ^ hash2).count('1')
hamming_distance(hash1, hash2) == Cardinality((hash1 \ hash2) \cup (hash2 \ hash1))

\* min_distance before any comparison, lines 165 and 344
DefaultVideoDistance == 128
DefaultControlDistance == 64

\* What a check returns (a dict): error "" when the key is absent; has_min
\* and has_risk tell whether min_distance and risk_level are present;
\* raised: an exception left the function instead.
CheckResult(error, has_min, min_distance, has_risk, risk_level, similar) ==
    [raised |-> FALSE, error |-> error, has_min |-> has_min, min_distance |-> min_distance,
     has_risk |-> has_risk, risk_level |-> risk_level, similar |-> similar]

Raised(error) ==
    [raised |-> TRUE, error |-> error, has_min |-> FALSE, min_distance |-> 0,
     has_risk |-> FALSE, risk_level |-> "", similar |-> FALSE]

NoResult == CheckResult("not run", FALSE, 0, FALSE, "", FALSE)

\* A submission as the detector sees it.  video: "none" (no video.* file),
\* "unopenable" (extract_keyframes raises) or "ok"; frames: per extracted
\* key frame its perceptual hash, or BadFrame when phash raises on it;
\* controls: a controls.* file exists; feat: "hash" (features extracted,
\* with SimHash simhash), "none" (no feature) or "raises" (an event that
\* is not an object).
Submission(video, frames, controls, feat, sh) ==
    [video |-> video, frames |-> frames, controls |-> controls, feat |-> feat, simhash |-> sh]

SubmissionPool ==
    { Submission("ok", <<Low(5)>>, TRUE, "hash", Low(5)),
      Submission("ok", <<Low(50)>>, TRUE, "hash", Low(50)),
      Submission("ok", <<Low(17), Low(8)>>, TRUE, "hash", Low(9)),
      Submission("ok", <<BadFrame, Low(16)>>, TRUE, "hash", Low(16)),
      Submission("ok", <<Low(1)>>, TRUE, "hash", Low(64)),
      Submission("ok", <<>>, TRUE, "none", {}),
      Submission("ok", <<BadFrame>>, TRUE, "raises", {}),
      Submission("unopenable", <<>>, TRUE, "hash", Low(1)),
      Submission("none", <<>>, TRUE, "hash", Low(5)),
      Submission("ok", <<Low(5)>>, FALSE, "none", {}) }

\* the cache given to the check: no cache_path, or a cache file
NoPath == [state |-> "nopath", data |-> EmptyCache, len |-> 0]

KnownCaches ==
    { NoPath, AbsentFile, BadFile(1), OkFile(EmptyCache),
      OkFile([video_hashes |-> <<Low(0)>>, control_hashes |-> <<Low(0)>>]),
      OkFile([video_hashes |-> <<Low(64), Low(0)>>, control_hashes |-> <<Low(64), Low(0)>>]),
      OkFile([video_hashes |-> <<Low(5)>>, control_hashes |-> <<Low(9), Low(5)>>]),
      OkFile([video_hashes |-> <<Low(0)>>, control_hashes |-> <<Low(64), Low(25)>>]) }

\* the tiers with the bound 8 left out of "high": a plausible slip
RiskLevelStrict(min_distance) ==
    IF min_distance < 8 THEN "high"
    ELSE IF min_distance <= 16 THEN "medium"
    ELSE "low"

\* lines 185-190 and 363-368
RiskLevel(min_distance) ==
    IF min_distance <= 8 THEN "high"
    ELSE IF min_distance <= 16 THEN "medium"
    ELSE "low"

\* The loops of lines 173-178 and 352-356 from position (i, j) on: acc is
\* <<min_distance, len(similar_hashes)>>.
RECURSIVE Compare(_, _, _, _, _)
Compare(hashes, known, i, j, acc) ==
    IF i > Len(hashes) THEN acc
    ELSE IF j > Len(known) THEN Compare(hashes, known, i + 1, 1, acc)
    ELSE LET distance == hamming_distance(hashes[i], known[j])
         IN  Compare(hashes, known, i, j + 1,
                     IF distance < acc[1] THEN <<distance, acc[2] + 1>> ELSE acc)

\* lines 164-199 and 343-377: the comparison against the cache (skipped
\* without a cache file, abandoned when the file cannot be read) and the
\* result
Compared(hashes, known, cache, default) ==
    LET acc == IF cache.state = "ok" THEN Compare(hashes, known, 1, 1, <<default, 0>>)
               ELSE <<default, 0>>
    IN  CheckResult("", TRUE, acc[1], TRUE, RiskLevel(acc[1]), acc[2] > 0)

\* the body of detect_video_duplicates, lines 135-199
VideoBody(sub, cache) ==
    IF sub.video = "unopenable" THEN Raised("Could not open video")
    ELSE IF Len(sub.frames) = 0 THEN
        CheckResult("No frames extracted from video", TRUE, DefaultVideoDistance,
                    TRUE, "unknown", FALSE)
    ELSE LET hashes == SelectSeq(sub.frames, LAMBDA h : h # BadFrame)
         IN  IF Len(hashes) = 0 THEN
                CheckResult("No valid hashes computed", TRUE, DefaultVideoDistance,
                            TRUE, "unknown", FALSE)
             ELSE Compared(hashes, cache.data.video_hashes, cache, DefaultVideoDistance)

\* the body of detect_control_duplicates, lines 329-377
ControlsBody(sub, cache) ==
    IF sub.feat = "raises" THEN Raised("'int' object has no attribute 'get'")
    ELSE IF sub.feat = "none" THEN
        CheckResult("No features extracted from controls", TRUE, DefaultControlDistance,
                    TRUE, "unknown", FALSE)
    ELSE Compared(<<sub.simhash>>, cache.data.control_hashes, cache, DefaultControlDistance)

\* the exception goes on to the caller: a detector without its try block
Reraise(r, default) == r

\* "except Exception as e", lines 201-207 and 379-385
Except(r, default) ==
    IF r.raised THEN CheckResult(r.error, TRUE, default, TRUE, "unknown", FALSE) ELSE r

detect_video_duplicates(sub, cache) == Except(VideoBody(sub, cache), DefaultVideoDistance)

detect_control_duplicates(sub, cache) == Except(ControlsBody(sub, cache), DefaultControlDistance)

\* video similarity scoring with the tiers confused: a plausible slip
VideoPointsSwapped(video_min_dist) ==
    IF video_min_dist <= 8 THEN 20
    ELSE IF video_min_dist <= 16 THEN 40
    ELSE 0

\* ingest_check.py lines 60-65
VideoPoints(video_min_dist) ==
    IF video_min_dist <= 8 THEN 40
    ELSE IF video_min_dist <= 16 THEN 20
    ELSE 0

\* lines 67-72
ControlPoints(controls_min_dist) ==
    IF controls_min_dist <= 8 THEN 30
    ELSE IF controls_min_dist <= 16 THEN 15
    ELSE 0

\* the thresholds one tier too low: a plausible slip
AssessmentShifted(risk_score) ==
    IF risk_score >= 50 THEN <<"reject", "high">>
    ELSE IF risk_score >= 30 THEN <<"flag", "high">>
    ELSE IF risk_score >= 15 THEN <<"review", "medium">>
    ELSE <<"accept", "low">>

\* lines 75-86: <<action, risk_level>>
Assessment(risk_score) ==
    IF risk_score >= 80 THEN <<"reject", "high">>
    ELSE IF risk_score >= 50 THEN <<"flag", "high">>
    ELSE IF risk_score >= 30 THEN <<"review", "medium">>
    ELSE <<"accept", "low">>

\* a missing min_distance read as 0: a plausible slip
MinDistanceOrZero(check, default) == IF check.has_min THEN check.min_distance ELSE 0

\* check.get('min_distance', default)
MinDistanceOf(check, default) == IF check.has_min THEN check.min_distance ELSE default

\* check.get('risk_level', 'unknown')
RiskOf(check) == IF check.has_risk THEN check.risk_level ELSE "unknown"

NoPre == [made |-> FALSE]

NoOut == [made |-> FALSE]

\* what run_anti_sybil_checks returns: {"error": ...} or the assessment
OutError(error) ==
    [made |-> TRUE, error |-> error, anti_sybil_passed |-> FALSE, risk_score |-> 0,
     risk_level |-> "", action |-> ""]

OutScore(risk_score, assessment) ==
    [made |-> TRUE, error |-> "", anti_sybil_passed |-> (assessment[1] = "accept"),
     risk_score |-> risk_score, risk_level |-> assessment[2], action |-> assessment[1]]

\* what precheck_shard returns
Pre(error, should_upload, estimated_acceptance) ==
    [made |-> TRUE, error |-> error, should_upload |-> should_upload,
     estimated_acceptance |-> estimated_acceptance]

\* {"error": "No video file"}: a check without min_distance and risk_level
ErrorOnly(error) == CheckResult(error, FALSE, 0, FALSE, "", FALSE)

ASInit ==
    /\ as_deps \in BOOLEAN
    /\ as_shard \in SubmissionPool
    /\ as_cache \in KnownCaches
    /\ as_pc = "start"
    /\ as_video = NoResult
    /\ as_controls = NoResult
    /\ as_pre = NoPre
    /\ as_out = NoOut

\* run_anti_sybil_checks, ingest_check.py lines 47-52
ASStart ==
    /\ as_pc = "start"
    /\ IF as_deps
       THEN /\ as_pc' = "glob"
            /\ UNCHANGED as_out
       ELSE /\ as_pc' = "done"
            /\ as_out' = OutError("Dependencies not available for anti-sybil checks")
    /\ UNCHANGED <<as_deps, as_shard, as_cache, as_video, as_controls, as_pre, notAs>>

\* precheck_shard, dedupe.py lines 399-422
ASGlob ==
    /\ as_pc = "glob"
    /\ IF as_shard.video = "none"
       THEN /\ as_pre' = Pre("No video file found", FALSE, 0)
            /\ as_video' = ErrorOnly("No video file")
            /\ as_controls' = ErrorOnly("No video file")
            /\ as_pc' = "score"
       ELSE IF ~as_shard.controls
       THEN /\ as_pre' = Pre("No controls file found", FALSE, 0)
            /\ as_video' = ErrorOnly("No controls file")
            /\ as_controls' = ErrorOnly("No controls file")
            /\ as_pc' = "score"
       ELSE /\ as_pc' = "video"
            /\ UNCHANGED <<as_pre, as_video, as_controls>>
    /\ UNCHANGED <<as_deps, as_shard, as_cache, as_out, notAs>>

\* one detector call of precheck_shard: an exception leaving it goes
\* through precheck_shard to the except of run_anti_sybil_checks
\* (ingest_check.py lines 98-99)
AfterDetect(r, next) ==
    IF r.raised
    THEN /\ as_pc' = "done"
         /\ as_out' = OutError("Anti-sybil check failed")
    ELSE /\ as_pc' = next
         /\ UNCHANGED as_out

\* line 425
ASDetectVideo ==
    /\ as_pc = "video"
    /\ as_video' = detect_video_duplicates(as_shard, as_cache)
    /\ AfterDetect(as_video', "controls")
    /\ UNCHANGED <<as_deps, as_shard, as_cache, as_controls, as_pre, notAs>>

\* line 426
ASDetectControls ==
    /\ as_pc = "controls"
    /\ as_controls' = detect_control_duplicates(as_shard, as_cache)
    /\ AfterDetect(as_controls', "recommend")
    /\ UNCHANGED <<as_deps, as_shard, as_cache, as_video, as_pre, notAs>>

\* lines 433-438
ShouldUpload(video_check, controls_check) ==
    /\ RiskOf(video_check) \in {"low", "medium"}
    /\ RiskOf(controls_check) \in {"low", "medium"}
    /\ video_check.error = ""
    /\ controls_check.error = ""

\* lines 441-448, in percent
AcceptanceProb(video_risk, controls_risk) ==
    IF video_risk = "low" /\ controls_risk = "low" THEN 95
    ELSE IF video_risk = "medium" \/ controls_risk = "medium" THEN 75
    ELSE IF video_risk = "high" \/ controls_risk = "high" THEN 25
    ELSE 50

\* lines 428-459
ASRecommend ==
    /\ as_pc = "recommend"
    /\ as_pre' = Pre("", ShouldUpload(as_video, as_controls),
                     AcceptanceProb(RiskOf(as_video), RiskOf(as_controls)))
    /\ as_pc' = "score"
    /\ UNCHANGED <<as_deps, as_shard, as_cache, as_video, as_controls, as_out, notAs>>

\* ingest_check.py lines 58-72
RiskScore(video_min_dist, controls_min_dist) ==
    VideoPoints(video_min_dist) + ControlPoints(controls_min_dist)

\* ingest_check.py lines 55-96
ASScore ==
    /\ as_pc = "score"
    /\ LET risk_score == RiskScore(MinDistanceOf(as_video, DefaultVideoDistance),
                                   MinDistanceOf(as_controls, DefaultControlDistance))
       IN  as_out' = OutScore(risk_score, Assessment(risk_score))
    /\ as_pc' = "done"
    /\ UNCHANGED <<as_deps, as_shard, as_cache, as_video, as_controls, as_pre, notAs>>

-----------------------------------------------------------------------------
(* gap_agent/dedupe.py: precheck_shard on a cache that update_cache writes *)

\* The 64-bit fingerprint that phash / simhash give for content n, as the
\* set of its 1 bits: different contents are 32 bits apart.
Fingerprint(n) ==
    {b \in 0..63 :
        ((b % 2) * ((n - 1) % 2)
         + ((b \div 2) % 2) * (((n - 1) \div 2) % 2)
         + ((b \div 4) % 2) * (((n - 1) \div 4) % 2)) % 2 = 1}

FingerprintsOf(ids) == [i \in 1..Len(ids) |-> Fingerprint(ids[i])]

\* the shard given to update_cache, as precheck_shard sees it: it holds a
\* controls file, with or without features
SubmissionOf(shard) ==
    Submission(IF shard.video = "bad" THEN "unopenable" ELSE shard.video,
               FingerprintsOf(shard.frames), TRUE,
               IF Len(shard.feat) = 0 THEN "none" ELSE "hash",
               IF Len(shard.feat) = 0 THEN {} ELSE Fingerprint(shard.feat[1]))

\* lines 168-170 and 347-349: Path(cache_path).exists(), open and
\* json.load on the cache file as it is at that moment
ReadCache(file) ==
    [state |-> file.state,
     data  |-> [video_hashes   |-> FingerprintsOf(file.data.video_hashes),
                control_hashes |-> FingerprintsOf(file.data.control_hashes)],
     len   |-> file.len]

\* the precheck of the shard of call 1, with as_cache the cache file as
\* the detector last read it (NoPath before the first read)
RCInit ==
    /\ as_deps = TRUE
    /\ as_shard = SubmissionOf(uc_shard[1])
    /\ as_cache = NoPath
    /\ as_pc = "start"
    /\ as_video = NoResult
    /\ as_controls = NoResult
    /\ as_pre = NoPre
    /\ as_out = NoOut

\* the precheck is called once update_cache(shard, cache) has returned True
RCStartAfter ==
    /\ uc_pc[1] = "true"
    /\ ASStart

\* line 425, on the cache file of update_cache
RCDetectVideo ==
    /\ as_pc = "video"
    /\ as_cache' = ReadCache(uc_file)
    /\ as_video' = detect_video_duplicates(as_shard, as_cache')
    /\ AfterDetect(as_video', "controls")
    /\ UNCHANGED <<as_deps, as_shard, as_controls, as_pre, notAs>>

\* line 426, on the cache file of update_cache
RCDetectControls ==
    /\ as_pc = "controls"
    /\ as_cache' = ReadCache(uc_file)
    /\ as_controls' = detect_control_duplicates(as_shard, as_cache')
    /\ AfterDetect(as_controls', "recommend")
    /\ UNCHANGED <<as_deps, as_shard, as_video, as_pre, notAs>>

-----------------------------------------------------------------------------
(* tools/atomic.py: atomic_write_bytes *)

\* A file: kind "none" (no file), "old" (the complete previous content) or
\* "new" with the first n bytes of data; "new" with n below len(data) is a
\* partial file, with n = 0 an empty one.
NoFile == [kind |-> "none", n |-> 0]
OldFile == [kind |-> "old", n |-> 0]
NewFile(n) == [kind |-> "new", n |-> n]

\* the bytes go straight into dest: a write that is not atomic
WriteInPlace(dest, tmp, n) == <<NewFile(n), tmp>>

\* line 8: tmp.write(data) puts the bytes into the temporary file
WriteToTemp(dest, tmp, n) == <<dest, NewFile(n)>>

AWInit ==
    /\ aw_in \in [dest : {NoFile, OldFile}, len : 1..MaxData, parent : BOOLEAN]
    /\ ~aw_in.parent => aw_in.dest = NoFile
    /\ aw_dest = aw_in.dest
    /\ aw_tmp = NoFile
    /\ aw_pc = "mkdir"

\* line 6: dest.parent.mkdir(parents=True, exist_ok=True)
AWMkdir ==
    /\ aw_pc = "mkdir"
    /\ \E ok \in BOOLEAN :
          /\ ~ok => ~aw_in.parent
          /\ aw_pc' = IF ok THEN "create" ELSE "raised"
    /\ UNCHANGED <<aw_in, aw_dest, aw_tmp, notAw>>

\* line 7: tempfile.NamedTemporaryFile(delete=False, dir=dest.parent)
AWCreate ==
    /\ aw_pc = "create"
    /\ \E ok \in BOOLEAN :
          IF ok
          THEN /\ aw_pc' = "write"
               /\ aw_tmp' = NewFile(0)
               /\ UNCHANGED aw_dest
          ELSE /\ aw_pc' = "raised"
               /\ UNCHANGED <<aw_dest, aw_tmp>>
    /\ UNCHANGED <<aw_in, notAw>>

\* line 8: the bytes reach the file in one or several pieces; an error
\* leaves the with block, which closes the file and keeps it (delete=False)
AWWrite ==
    /\ aw_pc = "write"
    /\ \/ \E n \in (aw_tmp.n + 1)..aw_in.len :
             /\ aw_dest' = WriteToTemp(aw_dest, aw_tmp, n)[1]
             /\ aw_tmp' = WriteToTemp(aw_dest, aw_tmp, n)[2]
             /\ aw_pc' = IF n = aw_in.len THEN "sync" ELSE "write"
       \/ /\ aw_pc' = "raised"
          /\ UNCHANGED <<aw_dest, aw_tmp>>
    /\ UNCHANGED <<aw_in, notAw>>

\* lines 9-11: flush, fsync, and the close at the end of the with block
AWSync ==
    /\ aw_pc = "sync"
    /\ \E ok \in BOOLEAN : aw_pc' = IF ok THEN "replace" ELSE "raised"
    /\ UNCHANGED <<aw_in, aw_dest, aw_tmp, notAw>>

\* line 12: os.replace(tmp_path, dest) renames the temporary file over dest
\* in one step, or fails and changes nothing
AWReplace ==
    /\ aw_pc = "replace"
    /\ \E ok \in BOOLEAN :
          IF ok
          THEN /\ aw_dest' = aw_tmp
               /\ aw_tmp' = NoFile
               /\ aw_pc' = "returned"
          ELSE /\ aw_pc' = "raised"
               /\ UNCHANGED <<aw_dest, aw_tmp>>
    /\ UNCHANGED <<aw_in, notAw>>

\* the process is interrupted between two steps
AWInterrupt ==
    /\ aw_pc \in {"mkdir", "create", "write", "sync", "replace"}
    /\ aw_pc' = "interrupted"
    /\ UNCHANGED <<aw_in, aw_dest, aw_tmp, notAw>>

-----------------------------------------------------------------------------
(* Specifications: one per subsystem, the others standing still *)

PGIdle ==
    /\ pg_root = <<>>
    /\ pg_child = <<>>
    /\ pg_links = {}
    /\ pg_out = NoOutcome
    /\ pg_parts = <<>>

ExIdle ==
    /\ ex_ar = [fmt |-> "zip", readable |-> FALSE, entries |-> <<>>]
    /\ ex_caller = "direct"
    /\ ex_links = {}
    /\ ex_pc = "idle"
    /\ ex_idx = 1
    /\ ex_err = ""
    /\ ex_failed = 0
    /\ ex_fs = {}
    /\ td_pc = "none"

UCIdle ==
    /\ uc_file = AbsentFile
    /\ uc_init = AbsentFile
    /\ uc_shard = [p \in Procs |-> CHOOSE sh \in ShardPool : sh.video = "none"]
    /\ uc_pc = [p \in Procs |-> "start"]
    /\ uc_data = [p \in Procs |-> EmptyCache]

VAIdle ==
    /\ va_shard = CHOOSE sh \in Shards : TRUE
    /\ va_profile = ""
    /\ va_strict = FALSE
    /\ va_pc = "file_structure"
    /\ va_errors = <<>>
    /\ va_warnings = <<>>
    /\ va_ran = <<>>
    /\ va_checks = NoChecks
    /\ va_report = NoReport
    /\ va_ret = "none"
    /\ va_parsed = 0
    /\ va_opened = {}

ASIdle ==
    /\ as_deps = TRUE
    /\ as_shard = CHOOSE sub \in SubmissionPool : sub.video = "none"
    /\ as_cache = NoPath
    /\ as_pc = "start"
    /\ as_video = NoResult
    /\ as_controls = NoResult
    /\ as_pre = NoPre
    /\ as_out = NoOut

AWIdle ==
    /\ aw_in = [dest |-> NoFile, len |-> 1, parent |-> TRUE]
    /\ aw_dest = NoFile
    /\ aw_tmp = NoFile
    /\ aw_pc = "mkdir"

InitPath == PGInit /\ ExIdle /\ UCIdle /\ VAIdle /\ ASIdle /\ AWIdle
NextPath == PGResolve
SpecPath == InitPath /\ [][NextPath]_vars

InitExtract == ExInit /\ PGIdle /\ UCIdle /\ VAIdle /\ ASIdle /\ AWIdle
NextExtract ==
    \/ TempDirInit
    \/ TempDirEnter
    \/ ExtractBegin
    \/ ExtractEntry
    \/ ExtractReturn
    \/ Cancel
    \/ TempDirExit
SpecExtract == InitExtract /\ [][NextExtract]_vars

InitCache == UCInit /\ PGIdle /\ ExIdle /\ VAIdle /\ ASIdle /\ AWIdle
NextCache ==
    \/ \E p \in Procs : UCLoad(p)
    \/ \E p \in Procs : UCMerge(p)
    \/ \E p \in Procs : UCOpen(p)
    \/ \E p \in Procs : UCDump(p)
SpecCache == InitCache /\ [][NextCache]_vars

InitValidate == VAInit /\ PGIdle /\ ExIdle /\ UCIdle /\ ASIdle /\ AWIdle
NextValidate ==
    \/ VFileStructure
    \/ VMeta
    \/ VControls
    \/ VHashes
    \/ VProfileSpecific
    \/ VReport
SpecValidate == InitValidate /\ [][NextValidate]_vars

InitScore == ASInit /\ PGIdle /\ ExIdle /\ UCIdle /\ VAIdle /\ AWIdle
NextScore ==
    \/ ASStart
    \/ ASGlob
    \/ ASDetectVideo
    \/ ASDetectControls
    \/ ASRecommend
    \/ ASScore
SpecScore == InitScore /\ [][NextScore]_vars

InitAtomic == AWInit /\ PGIdle /\ ExIdle /\ UCIdle /\ VAIdle /\ ASIdle
NextAtomic ==
    \/ AWMkdir
    \/ AWCreate
    \/ AWWrite
    \/ AWSync
    \/ AWReplace
    \/ AWInterrupt
SpecAtomic == InitAtomic /\ [][NextAtomic]_vars

\* a precheck of the shard after its update_cache returned True, while
\* the other admission may still be running
InitRecheck == UCInit /\ RCInit /\ PGIdle /\ ExIdle /\ VAIdle /\ AWIdle
NextRecheck ==
    \/ \E p \in Procs : UCLoad(p)
    \/ \E p \in Procs : UCMerge(p)
    \/ \E p \in Procs : UCOpen(p)
    \/ \E p \in Procs : UCDump(p)
    \/ RCStartAfter
    \/ ASGlob
    \/ RCDetectVideo
    \/ RCDetectControls
    \/ ASRecommend
    \/ ASScore
SpecRecheck == InitRecheck /\ [][NextRecheck]_vars

\* a precheck running at any time while update_cache calls rewrite the
\* cache file
NextConcurrent ==
    \/ \E p \in Procs : UCLoad(p)
    \/ \E p \in Procs : UCMerge(p)
    \/ \E p \in Procs : UCOpen(p)
    \/ \E p \in Procs : UCDump(p)
    \/ ASStart
    \/ ASGlob
    \/ RCDetectVideo
    \/ RCDetectControls
    \/ ASRecommend
    \/ ASScore
SpecConcurrent == InitRecheck /\ [][NextConcurrent]_vars

-----------------------------------------------------------------------------
(* Properties of the path guard *)

CanonicalRoot == Resolve(pg_links, PurePath(pg_root))

\* a canonical path: absolute, no "." or ".." or empty component, and no
\* prefix of it is a symbolic link
Canonical(links, p) ==
    /\ p.abs
    /\ \A i \in 1..Len(p.parts) :
          /\ p.parts[i] \notin {<<>>, Dot, DotDot}
          /\ ~IsLink(links, SubSeq(p.parts, 1, i))

\* C1: for every root and candidate, _resolve_under / safe_resolve_path
\* either raises "unsafe path outside root" or returns a canonical path that
\* is a strict descendant of the canonical root; never the root itself or a
\* path outside it (such as a sibling whose name extends the root's name).
C1_ResolveStaysUnderRoot ==
    /\ pg_out.kind \in {"none", "unsafe", "ret"}
    /\ pg_out.kind = "ret" =>
          /\ Canonical(pg_links, pg_out.path)
          /\ StrictlyUnder(pg_out.path.parts, CanonicalRoot.parts)

\* the guard returned a path for a candidate that holds a ".." segment
C1_Witness ==
    /\ pg_out.kind = "ret"
    /\ pg_root = <<"/", "a">>
    /\ pg_child = <<"a", "/", ".", ".", "/", "b">>

\* the sibling /ab of the root /a, reached by "../ab", was refused
C1_SiblingRefused ==
    (pg_child = <<".", ".", "/", "a", "b">> /\ pg_root = <<"/", "a">> /\ pg_out.kind # "none")
        => pg_out.kind = "unsafe"

-----------------------------------------------------------------------------
(* Properties of the extractor *)

\* what the entries of the archive have put on disk
EntryNodes == {n \in ex_fs : n.by >= 1}

RECURSIVE CountKind(_, _, _)
CountKind(es, kind, i) ==
    IF i > Len(es) THEN 0
    ELSE (IF es[i].kind = kind THEN 1 ELSE 0) + CountKind(es, kind, i + 1)

RegularEntries == SelectSeq(ex_ar.entries, LAMBDA e : e.kind = "file")

\* C2: in every state reached during safe_extract_zip or safe_extract_tar,
\* everything the extractor has created lies inside the destination
\* directory: the directory itself (made on entry) or a strict descendant.
C2_EntriesInsideDestination ==
    \A n \in ex_fs :
        /\ n.by = 0 => n.path = DestOf(ex_caller)
        /\ n.by >= 1 => StrictlyUnder(n.path, DestOf(ex_caller))

\* a first entry was written, then the guard refused a second one whose
\* name passes the name test but leads through a link out of the destination
C2_Witness ==
    /\ ex_links # {}
    /\ ex_err = "unsafe path"
    /\ ex_failed = 2
    /\ Files(ex_ar)[2].name = Txt_bf
    /\ \E n \in EntryNodes : n.kind = "file"

HasUnsafeName == \E i \in 1..Len(RegularEntries) : UnsafeName(RegularEntries[i].name)

\* C3: if a regular-file entry has an absolute name or a ".." component,
\* extraction fails, and when it has failed no entry has been written, also
\* not a safe entry listed before the unsafe one.
C3_UnsafeNameRejectedBeforeAnyWrite ==
    HasUnsafeName =>
        /\ ex_pc # "returned"
        /\ ex_pc = "raised" => EntryNodes = {}

\* C4: more regular files than MAX_FILES, or declared sizes summing to more
\* than MAX_TOTAL_BYTES: the extractor raises before the loop, no entry is
\* created; and the count that is limited leaves directories out.
C4_LimitsRejectBeforeAnyWrite ==
    /\ (\/ Len(RegularEntries) > MAX_FILES
        \/ SumSize(RegularEntries, 1) > MAX_TOTAL_BYTES)
          => /\ ex_pc \in {"idle", "raised"}
             /\ EntryNodes = {}
             /\ td_pc \in {"none", "body"} /\ ex_pc = "raised"
                   => ex_err \in {"too many files", "too large", "expansion ratio",
                                  "cancelled", "download"}
    /\ ex_err = "too many files"
          => Len(ex_ar.entries) - CountKind(ex_ar.entries, "dir", 1) > MAX_FILES

\* a TAR archive of two large files was refused for its size, and an archive
\* of MaxEntries entries, one of them a directory, was not refused
C4_Witness ==
    /\ ex_ar.fmt = "tar"
    /\ ex_err = "too large"
    /\ Len(RegularEntries) = 2

C4_WitnessDirNotCounted ==
    /\ Len(ex_ar.entries) > MAX_FILES
    /\ CountKind(ex_ar.entries, "dir", 1) = 1
    /\ ex_pc = "returned"

\* C5: an archive, ZIP or TAR, whose declared uncompressed total is more
\* than MAX_EXPANSION times its compressed total is refused, before any
\* entry is written.
C5_ExpansionRejectedBeforeAnyWrite ==
    (/\ SumCompress(Files(ex_ar), 1) > 0
     /\ SumSize(Files(ex_ar), 1) > MAX_EXPANSION * SumCompress(Files(ex_ar), 1))
        => /\ ex_pc \in {"idle", "raised"}
           /\ EntryNodes = {}

\* C6: when the processing of entry k fails (unsafe name, guard, write
\* error) the error reaches the caller, nothing is written for a later
\* entry, and the extractor does not return normally.
C6_FailureAbortsExtraction ==
    ex_failed > 0 =>
        /\ ex_pc = "raised"
        /\ ex_err \in {"unsafe member", "unsafe path", "mkdir", "open", "io"}
        /\ \A n \in ex_fs : n.by <= ex_failed

\* the first of two files failed with a write error, leaving a partial file
C6_Witness ==
    /\ ex_failed = 1
    /\ Len(Files(ex_ar)) = 2
    /\ ex_err = "io"
    /\ \E n \in EntryNodes : n.kind = "part"

\* C7: once a TempDir scope has exited (body returned, raised or was
\* cancelled) the temporary directory and all that was put below it are gone.
C7_TempDirGoneAfterExit ==
    td_pc = "exited" => \A n \in ex_fs : ~IsPrefix(TmpDir, n.path)

\* the scope was left by a cancellation after a first entry had been extracted
C7_Witness ==
    /\ td_pc = "exited"
    /\ ex_err = "cancelled"
    /\ ex_idx = 2

-----------------------------------------------------------------------------
(* Properties of the fingerprint cache *)

Holds(data, shard) ==
    /\ \A i \in 1..Len(shard.frames) : InSeq(shard.frames[i], data.video_hashes)
    /\ \A i \in 1..Len(shard.feat) : InSeq(shard.feat[i], data.control_hashes)

HoldsAll(data, old) ==
    /\ \A i \in 1..Len(old.video_hashes) : InSeq(old.video_hashes[i], data.video_hashes)
    /\ \A i \in 1..Len(old.control_hashes) : InSeq(old.control_hashes[i], data.control_hashes)

\* C8: for any interleaving of two update_cache calls on one cache file for
\* two different shards, once both have returned True the cache holds the
\* fingerprints of both shards and all it held before.
C8_ConcurrentUpdatesKeepBoth ==
    (\A p \in Procs : uc_pc[p] = "true") =>
        /\ uc_file.state = "ok"
        /\ \A p \in Procs : Holds(uc_file.data, uc_shard[p])
        /\ HoldsAll(uc_file.data, uc_init.data)

-----------------------------------------------------------------------------
(* Properties of validate_all *)

\* file_structure recorded no error on this shard
FsClean == \A o \in FileStructure(va_shard, va_profile) : o.errs = <<>>

\* the stages the claim expects a run to go through, in order
ExpectedStages ==
    IF FsClean THEN Stages ELSE <<"file_structure", "profile_specific">>

\* the run is over: validate_all returned or was left by an exception
RunOver == va_pc \in {"returned", "crashed"}

\* what file_structure and profile_specific alone record on this shard
FsAndProfileOnly(kind) ==
    {IF kind = "errs" THEN a.errs \o b.errs ELSE a.warns \o b.warns :
        a \in FileStructure(va_shard, va_profile),
        b \in ProfileSpecific(va_shard, va_profile, va_strict)}

\* the skipped stages add nothing and are not reported as passed
C9_SkippedStagesSilent ==
    (va_report.made /\ ~FsClean) =>
        /\ \A st \in {"meta", "controls", "hashes"} : va_report.checks[st] # TRUE
        /\ va_report.errors \in FsAndProfileOnly("errs")
        /\ va_report.warnings \in FsAndProfileOnly("warns")

\* the order of the stages in a run that returns
C9_OrderInReturnedRuns ==
    /\ IsPrefix(va_ran, ExpectedStages)
    /\ va_pc = "returned" => va_ran = ExpectedStages

\* C9: in every validate_all run file_structure runs first; meta, controls
\* and hashes run, in that order, exactly when file_structure recorded no
\* error; profile_specific runs last in every run; stages skipped because
\* file_structure failed add no message and are not reported as passed.
C9_StageOrder ==
    /\ IsPrefix(va_ran, ExpectedStages)
    /\ RunOver => va_ran = ExpectedStages
    /\ C9_SkippedStagesSilent

\* C10: report.valid is true exactly when report.errors is empty at the end
\* of the run, whatever the warnings, and the boolean returned is
\* report.valid.
C10_ValidIffNoErrors ==
    va_report.made =>
        /\ va_report.valid = (va_report.errors = <<>>)
        /\ va_report.errors = va_errors
        /\ va_ret = va_report.valid

\* a strict run with a profile ended valid although warnings were recorded
C10_Witness ==
    /\ va_report.made
    /\ va_report.valid
    /\ Len(va_report.warnings) >= 1
    /\ va_strict
    /\ IsOwl(va_profile)

\* a run ended invalid with errors of two stages
C10_WitnessInvalid ==
    /\ va_report.made
    /\ ~va_report.valid
    /\ Len(va_report.errors) >= 2
    /\ Len(va_ran) = 5

\* the messages of the run so far, errors and warnings alike
Recorded == {va_errors[i] : i \in 1..Len(va_errors)} \cup {va_warnings[i] : i \in 1..Len(va_warnings)}

\* C11: whatever the shard directory holds (a meta.json whose display or
\* privacy is not an object, a hashes.json whose sha256 section is not a
\* mapping or names a directory, timestamps that are not numbers),
\* validate_all ends by returning (valid, report): no exception leaves it.
C11_NoExceptionEscapes == va_pc # "crashed"

InRan(st) == InSeq(st, va_ran)

\* the controls stage has run and got past the loading of the file, to the
\* checks of lines 212-237
ControlsChecked ==
    /\ InRan("controls")
    /\ \A m \in Recorded : m[1] \notin {"load controls", "jsonl without t_us", "no controls file"}

StrictlyIncreasing(ts) == \A i \in 1..(Len(ts) - 1) : ts[i] < ts[i + 1]

\* C12: when the controls stage checks a stream of numeric timestamps, it
\* records the "Timestamps not strictly monotonic" error exactly when some
\* consecutive pair is not strictly increasing: a decrease, and also a
\* repeated value.
C12_StrictMonotonicError ==
    (ControlsChecked /\ va_shard.controls.numeric) =>
        (InSeq(Msg("not monotonic", ""), va_errors)
            <=> ~StrictlyIncreasing(va_shard.controls.ts))

\* the hashes stage has run over a manifest whose sha256 section is a mapping
ManifestChecked ==
    /\ InRan("hashes")
    /\ va_shard.hashes.load
    /\ va_shard.hashes.sha = "map"

\* what the claim expects the stage to have recorded for one manifest entry
EntryReported(it) ==
    CASE it.at = "file" /\ ~it.match ->
            InSeq(Msg("hash mismatch", it.name), va_errors)
      [] it.at = "file" /\ it.match ->
            \A m \in Recorded : m[2] # it.name
      [] it.at = "absent" ->
            /\ InSeq(Msg("hash entry absent", it.name), va_warnings)
            /\ ~InSeq(Msg("hash mismatch", it.name), va_errors)
      [] OTHER -> TRUE

ManifestReported ==
    \A i \in 1..Len(va_shard.hashes.items) : EntryReported(va_shard.hashes.items[i])

\* the stage reports every entry when it runs to its end
C13_ReportedWhenStageCompletes ==
    (ManifestChecked /\ va_pc # "crashed") => ManifestReported

\* C13: for every manifest, once the hashes stage has run, each referenced
\* existing file whose digest differs has a hash-mismatch error naming it,
\* each referenced file that does not exist has a warning and no error, and
\* a file whose digest matches has no message.
C13_HashesReported == ManifestChecked => ManifestReported

\* the shard holds a recognized video file larger than max_video_bytes
OversizedVideo ==
    /\ va_shard.videoBig
    /\ va_shard.files \cap {"video.ivf", "video.mkv"} # {}

\* an oversized video is refused when it is the only video file
C14_SingleOversizedVideoRejected ==
    (OversizedVideo /\ Cardinality(va_shard.files \cap {"video.ivf", "video.mkv"}) = 1
        /\ InRan("file_structure")) =>
        /\ \E m \in Recorded : m[1] = "too large"
        /\ va_checks["file_structure"] = FALSE

\* C14: whenever the shard holds a recognized video file larger than the
\* configured maximum, also next to a second video file, file_structure
\* records an error, the shard is invalid, and meta, controls and hashes
\* are not run.
C14_OversizedVideoRejected ==
    (OversizedVideo /\ InRan("file_structure")) =>
        /\ \E i \in 1..Len(va_errors) : va_errors[i][1] = "too large"
        /\ ~InRan("meta") /\ ~InRan("controls") /\ ~InRan("hashes")
        /\ va_report.made => ~va_report.valid

\* the controls file is over the byte cap or holds more records than the cap
OverControlsCaps == va_shard.controls.big \/ va_shard.controls.rows > max_jsonl_lines

\* the caps are enforced on controls.jsonl when it is the file that is read
C15_JsonlCapsEnforced ==
    (InRan("controls") /\ OverControlsCaps /\ "controls.parquet" \notin va_shard.files
        /\ "controls.jsonl" \in va_shard.files) =>
        /\ InSeq(Msg("load controls", "controls.jsonl"), va_errors)
        /\ va_parsed <= max_jsonl_lines

\* C15: for a controls file in either format, a file over the byte cap or
\* with more records than the record cap makes the controls stage record
\* an error, and the stage has parsed no more records than the cap.
C15_ControlsCapsEnforced ==
    (InRan("controls") /\ OverControlsCaps) =>
        /\ \E i \in 1..Len(va_errors) :
              va_errors[i][1] \in {"load controls", "jsonl without t_us", "no controls file",
                                   "controls column", "not monotonic"}
        /\ va_parsed <= max_jsonl_lines

\* the meta stage has run on a meta.json that parses as an object
MetaChecked ==
    /\ InRan("meta")
    /\ "meta.json" \in va_shard.files
    /\ va_shard.meta.doc = "object"

\* every missing or wrongly typed required field has its error
FieldsReported ==
    \A i \in 1..Len(MetaFields) :
        LET f == MetaFields[i] IN
        /\ va_shard.meta.field[f] = "missing" => InSeq(Msg("meta missing", f), va_errors)
        /\ va_shard.meta.field[f] = "wrong" => InSeq(Msg("meta type", f), va_errors)

\* with the supported schema_version every field problem is reported
C16_FieldsReportedForSupportedVersion ==
    (MetaChecked /\ va_shard.meta.field["schema_version"] = "ok") => FieldsReported

\* C16: for a meta.json that parses as an object the meta stage records an
\* error for each required field that is missing or of the wrong type and
\* an error for a schema_version other than "0.2.0", all in the same run.
C16_AllMetaProblemsReported ==
    MetaChecked =>
        /\ FieldsReported
        /\ va_shard.meta.field["schema_version"] # "ok" =>
              \E i \in 1..Len(va_errors) :
                  va_errors[i][1] \in {"unsupported version", "load meta"}

-----------------------------------------------------------------------------
(* Properties of the duplicate detection and of the admission score *)

\* the two distances the score is computed from
ScoredVideoDistance == MinDistanceOf(as_video, DefaultVideoDistance)
ScoredControlDistance == MinDistanceOf(as_controls, DefaultControlDistance)

\* the assessment has been computed
Scored == as_out.made /\ as_out.error = ""

\* C17: risk_score = (40 if dv <= 8, 20 if 8 < dv <= 16, else 0) + (30 if
\* dc <= 8, 15 if 8 < dc <= 16, else 0); action is reject from 80, flag
\* from 50, review from 30, else accept; (5, 5) gives 70 and flag, (50, 50)
\* gives 0 and accept.
C17_ScoreFromDistances ==
    Scored =>
        LET dv == ScoredVideoDistance
            dc == ScoredControlDistance
            pv == CASE dv <= 8 -> 40 [] dv > 8 /\ dv <= 16 -> 20 [] OTHER -> 0
            pc == CASE dc <= 8 -> 30 [] dc > 8 /\ dc <= 16 -> 15 [] OTHER -> 0
        IN  /\ as_out.risk_score = pv + pc
            /\ as_out.action = (CASE pv + pc >= 80 -> "reject"
                                  [] pv + pc >= 50 /\ pv + pc < 80 -> "flag"
                                  [] pv + pc >= 30 /\ pv + pc < 50 -> "review"
                                  [] OTHER -> "accept")
            /\ (dv = 5 /\ dc = 5) => (as_out.risk_score = 70 /\ as_out.action = "flag")
            /\ (dv = 50 /\ dc = 50) => (as_out.risk_score = 0 /\ as_out.action = "accept")

\* distances 5 and 5 were scored 70 and flagged
C17_Witness ==
    /\ Scored
    /\ ScoredVideoDistance = 5
    /\ ScoredControlDistance = 5
    /\ as_out.risk_score = 70
    /\ as_out.action = "flag"

\* distances 50 and 50 were scored 0 and accepted
C17_WitnessFar ==
    /\ Scored
    /\ ScoredVideoDistance = 50
    /\ ScoredControlDistance = 50
    /\ as_out.action = "accept"

\* the fingerprints of a sequence, as a set
Elems(seq) == {seq[i] : i \in 1..Len(seq)}

\* the cached fingerprints of one kind that can be read
Cached(kind) ==
    IF as_cache.state # "ok" THEN {}
    ELSE IF kind = "video" THEN Elems(as_cache.data.video_hashes)
    ELSE Elems(as_cache.data.control_hashes)

\* the fingerprints computed for the submission
VideoFingerprints == Elems(as_shard.frames) \ {BadFrame}
ControlFingerprints == IF as_shard.feat = "hash" THEN {as_shard.simhash} ELSE {}

\* the smallest distance between the two sets, default when none is closer
Smallest(new, known, default) ==
    LET ds == {hamming_distance(a, b) : a \in new, b \in known} \cup {default}
    IN  CHOOSE d \in ds : \A e \in ds : d <= e

\* a detector compared the fingerprints of the submission
VideoCompared == as_video.error = "" /\ as_video.has_min
ControlsCompared == as_controls.error = "" /\ as_controls.has_min

Tier(d) == CASE d <= 8 -> "high" [] d > 8 /\ d <= 16 -> "medium" [] OTHER -> "low"

\* C18: the reported min_distance is the smallest Hamming distance between
\* a fingerprint of the submission and a cached fingerprint of the same
\* kind, 0 when an identical one is cached, the default when none is
\* closer; risk_level is high up to 8, medium up to 16, low above.
C18_MinDistanceAndTier ==
    /\ VideoCompared =>
          /\ as_video.min_distance
                = Smallest(VideoFingerprints, Cached("video"), DefaultVideoDistance)
          /\ VideoFingerprints \cap Cached("video") # {} => as_video.min_distance = 0
          /\ as_video.risk_level = Tier(as_video.min_distance)
    /\ ControlsCompared =>
          /\ as_controls.min_distance
                = Smallest(ControlFingerprints, Cached("controls"), DefaultControlDistance)
          /\ ControlFingerprints \cap Cached("controls") # {} => as_controls.min_distance = 0
          /\ as_controls.risk_level = Tier(as_controls.min_distance)

\* the closest cached video fingerprint, found after a farther one, is at
\* distance 8 (high), the closest control fingerprint at distance 16 (medium)
C18_Witness ==
    /\ VideoCompared /\ ControlsCompared
    /\ as_video.min_distance = 8 /\ as_video.risk_level = "high"
    /\ Len(as_shard.frames) = 2
    /\ as_controls.min_distance = 16 /\ as_controls.risk_level = "medium"

\* a fingerprint could not be computed for the video, or for the controls
VideoFingerprintFailed == as_shard.video = "unopenable" \/ VideoFingerprints = {}
ControlFingerprintFailed == as_shard.feat # "hash"

\* C19: when a fingerprint cannot be computed, the detector returns a
\* result with risk_level 'unknown' instead of raising, and precheck_shard
\* and the scoring step complete with a result.
C19_FailureDegradesToUnknown ==
    /\ (as_pc \in {"controls", "recommend", "score", "done"} /\ as_pre = NoPre
         /\ as_deps /\ VideoFingerprintFailed) =>
            (~as_video.raised /\ as_video.has_risk /\ as_video.risk_level = "unknown")
    /\ (as_pc \in {"recommend", "score", "done"} /\ as_controls # NoResult
         /\ as_controls.has_risk /\ ControlFingerprintFailed) =>
            as_controls.risk_level = "unknown"
    /\ ~as_controls.raised
    /\ (as_pc = "done" /\ as_deps) => (as_pre # NoPre /\ Scored)

\* neither fingerprint could be computed: both checks are 'unknown', and
\* the precheck and the score were returned
C19_Witness ==
    /\ as_pc = "done"
    /\ as_shard.frames = <<BadFrame>>
    /\ as_shard.feat = "raises"
    /\ as_video.risk_level = "unknown"
    /\ as_controls.risk_level = "unknown"
    /\ as_pre.made
    /\ Scored

-----------------------------------------------------------------------------
(* The cache as an append-only store *)

\* no call stands between the truncation of the file and its rewriting
NoWriteUnderWay == \A p \in Procs : uc_pc[p] # "opened"

\* C20: whatever update_cache calls have run on the cache file, returning
\* True or False, every fingerprint stored before them is still stored;
\* in particular a call that returned False has left the stored sets as
\* they were.
C20_StoredFingerprintsStay ==
    (uc_init.state = "ok" /\ NoWriteUnderWay) =>
        /\ uc_file.state = "ok"
        /\ HoldsAll(uc_file.data, uc_init.data)

-----------------------------------------------------------------------------
(* report.checks *)

\* what a stage makes of this shard, taken by itself
StageOutcomes(st) ==
    CASE st = "file_structure" -> FileStructure(va_shard, va_profile)
      [] st = "meta" -> ValidateMeta(va_shard, va_profile)
      [] st = "controls" -> ValidateControls(va_shard, va_profile)
      [] st = "hashes" -> ValidateHashes(va_shard)
      [] st = "profile_specific" -> ProfileSpecific(va_shard, va_profile, va_strict)

\* the stage records no error on this shard, whatever it does
OwnClean(st) == \A o \in StageOutcomes(st) : o.errs = <<>>

\* a stage reported true has recorded no error itself
C21_TrueCheckIsClean ==
    va_report.made =>
        \A st \in DOMAIN va_report.checks :
            (InRan(st) /\ va_report.checks[st] = TRUE) => \E o \in StageOutcomes(st) : o.errs = <<>>

\* C21: report.checks[stage] tells the stage's own outcome: a stage that
\* ran and recorded no error itself is reported true, also when an earlier
\* stage of the run recorded an error.
C21_ChecksReflectOwnStage ==
    va_report.made =>
        \A st \in DOMAIN va_report.checks :
            (InRan(st) /\ OwnClean(st)) => va_report.checks[st] = TRUE

-----------------------------------------------------------------------------
(* Candidates wrapped in ".." *)

\* the call was made on a candidate '..' / parts / '..'
WrappedCall == pg_parts # <<>> /\ pg_out.kind # "none"

\* every segment is a plain name: no separator, not empty, not ".."
PlainNames(parts) == \A i \in 1..Len(parts) : parts[i] \in {<<"a">>, <<"b">>}

\* the name of the canonical root's own directory, <<>> for "/"
RootName ==
    IF CanonicalRoot.parts = <<>> THEN <<>>
    ELSE CanonicalRoot.parts[Len(CanonicalRoot.parts)]

-----------------------------------------------------------------------------
(* Properties of atomic_write_bytes *)

\* C23: at every point during and after atomic_write_bytes, also when the
\* write fails or is interrupted, a reader of dest sees the complete
\* previous content (or no file) or the complete new data, never a partial
\* or empty file; a failed write leaves dest unchanged.
C23_DestOldOrCompleteNew ==
    /\ aw_dest = aw_in.dest \/ aw_dest = NewFile(aw_in.len)
    /\ aw_pc = "raised" => aw_dest = aw_in.dest
    /\ aw_pc = "returned" => aw_dest = NewFile(aw_in.len)

\* the write failed after part of the data had been written, over an
\* existing file
C23_Witness ==
    /\ aw_pc = "raised"
    /\ aw_in.dest = OldFile
    /\ aw_tmp.kind = "new" /\ aw_tmp.n > 0 /\ aw_tmp.n < aw_in.len
    /\ aw_dest = OldFile

-----------------------------------------------------------------------------
(* Properties of validate_hashes on manifest keys *)

\* C24: validate_hashes opens only files located inside the shard
\* directory: for every manifest, a key such as "../x" or an absolute path
\* never causes a file outside the shard directory to be read and hashed.
C24_HashesOnlyInsideShard ==
    \A f \in va_opened : StrictlyUnder(f.parts, ShardDir.parts)

-----------------------------------------------------------------------------
(* Properties of URILoader.load_from_uri for an s3:// archive *)

\* _load_from_s3 has returned the extraction directory to its caller: the
\* return statement inside the with block has run and the block was left
LoadReturned ==
    /\ ex_caller = "scoped"
    /\ ex_pc = "returned"
    /\ td_pc = "exited"

\* C25: the local directory that load_from_uri returns for an s3:// archive
\* still exists, with the extracted shard files in it, when the caller
\* builds the validator on it and runs validate_all.
C25_LoadedDirStillThere ==
    LoadReturned =>
        /\ DirAt(ex_fs, DestOf(ex_caller))
        /\ \A k \in 1..Len(Files(ex_ar)) : \E n \in ex_fs : n.by = k

-----------------------------------------------------------------------------
(* Range of the admission score *)

PossibleScores == {0, 15, 20, 30, 35, 40, 50, 55, 70}

\* C26: risk_score is always one of 0, 15, 20, 30, 35, 40, 50, 55, 70 and
\* never exceeds 70, so 'reject' is never produced; risk_level is 'high'
\* exactly when the action is 'flag', 'medium' exactly when it is 'review'
\* and 'low' exactly when it is 'accept'.
C26_ScoreRangeAndLevels ==
    Scored =>
        /\ as_out.risk_score \in PossibleScores
        /\ as_out.risk_score <= 70
        /\ as_out.action # "reject"
        /\ as_out.risk_level = "high" <=> as_out.action = "flag"
        /\ as_out.risk_level = "medium" <=> as_out.action = "review"
        /\ as_out.risk_level = "low" <=> as_out.action = "accept"

\* a video at distance 8 and controls at distance 16 were scored 55
C26_Witness ==
    /\ Scored
    /\ as_out.risk_score = 55
    /\ as_out.action = "flag"
    /\ as_out.risk_level = "high"

\* a submission sent to review
C26_WitnessReview ==
    /\ Scored
    /\ as_out.action = "review"
    /\ as_out.risk_level = "medium"

-----------------------------------------------------------------------------
(* Checks that could not run *)

\* a check returned to the scoring step without a usable distance: it did
\* not run (early return of precheck_shard) or it reports an error
VideoCheckFailed == as_video.error # ""
ControlsCheckFailed == as_controls.error # ""

\* C30: a fingerprint check that could not run or reports an error adds 0
\* points to the score; when neither fingerprint could be computed the
\* score is 0, the action 'accept' and anti_sybil_passed true.
C30_FailedCheckAddsNothing ==
    Scored =>
        /\ VideoCheckFailed =>
              as_out.risk_score =
                 (CASE as_controls.has_min /\ as_controls.min_distance <= 8 -> 30
                    [] as_controls.has_min /\ as_controls.min_distance > 8
                         /\ as_controls.min_distance <= 16 -> 15
                    [] OTHER -> 0)
        /\ ControlsCheckFailed =>
              as_out.risk_score =
                 (CASE as_video.has_min /\ as_video.min_distance <= 8 -> 40
                    [] as_video.has_min /\ as_video.min_distance > 8
                         /\ as_video.min_distance <= 16 -> 20
                    [] OTHER -> 0)
        /\ (VideoCheckFailed /\ ControlsCheckFailed) =>
              /\ as_out.risk_score = 0
              /\ as_out.action = "accept"
              /\ as_out.anti_sybil_passed

\* a shard without a video file: neither check ran, the score is 0 and the
\* submission is accepted
C30_Witness ==
    /\ Scored
    /\ as_shard.video = "none"
    /\ ~as_video.has_min /\ ~as_controls.has_min
    /\ as_out.risk_score = 0
    /\ as_out.action = "accept"
    /\ as_out.anti_sybil_passed

\* the video fingerprint failed while the controls were found in the cache
C30_WitnessOneFailed ==
    /\ Scored
    /\ VideoCheckFailed /\ ~ControlsCheckFailed
    /\ as_out.risk_score = 30

-----------------------------------------------------------------------------
(* report.valid and report.checks *)

AllChecksTrue ==
    \A i \in 1..Len(Stages) : va_report.checks[Stages[i]] = TRUE

\* C27: in every report validate_all returns, report.valid is true exactly
\* when all five entries of report.checks are true.
C27_ValidIffAllChecks ==
    va_report.made => (va_report.valid <=> AllChecksTrue)

\* a valid report with warnings under the OWL profile: all five stages ran
\* and are reported true
C27_Witness ==
    /\ va_report.made
    /\ va_report.valid
    /\ AllChecksTrue
    /\ IsOwl(va_profile)
    /\ Len(va_warnings) > 0

\* an invalid report of a shard with complete file structure and no
\* profile: the stages after the failing one are reported false
C27_WitnessInvalid ==
    /\ va_report.made
    /\ ~va_report.valid
    /\ va_report.checks["file_structure"] = TRUE
    /\ va_report.checks["profile_specific"] = TRUE
    /\ va_report.checks["hashes"] = FALSE

-----------------------------------------------------------------------------
(* Resubmission of a cached shard *)

\* a check reports an identical cached fingerprint
ReportsDuplicate(check) ==
    /\ check.has_min /\ check.min_distance = 0
    /\ check.has_risk /\ check.risk_level = "high"

\* C28: after update_cache(shard, cache) has returned True, a precheck of
\* the same shard reports min_distance 0 and risk_level 'high' for the
\* controls check when the controls yield a feature, and for the video
\* check when a key frame can be hashed; with both distances 0 the scorer
\* gives 70 and 'flag'.
C28_ResubmissionDetected ==
    /\ as_pre.made =>
          /\ ControlFingerprints # {} => ReportsDuplicate(as_controls)
          /\ VideoFingerprints # {} => ReportsDuplicate(as_video)
    /\ (Scored /\ ScoredVideoDistance = 0 /\ ScoredControlDistance = 0) =>
          (as_out.risk_score = 70 /\ as_out.action = "flag")

\* the same, for a precheck that found a video file and met no other
\* admission writing the cache: what the code does provide
C28_DetectedWhenAlone ==
    (as_pre.made /\ as_shard.video = "ok" /\ uc_pc[2] = "start") =>
        /\ ControlFingerprints # {} => ReportsDuplicate(as_controls)
        /\ VideoFingerprints # {} => ReportsDuplicate(as_video)

-----------------------------------------------------------------------------
(* Readers of the cache during its rewriting *)

\* a detector has read the cache file
CacheRead == as_cache # NoPath

\* the fingerprints stored before the calls, which every complete
\* version of the file written by them holds
StoredBefore(kind) ==
    IF uc_init.state # "ok" THEN {}
    ELSE IF kind = "video" THEN Elems(FingerprintsOf(uc_init.data.video_hashes))
    ELSE Elems(FingerprintsOf(uc_init.data.control_hashes))

\* C29: a detect_* call that reads the cache while an update_cache call
\* rewrites it sees the complete old or the complete new sets, never a
\* truncated or partial file, and never reports a cached duplicate as low
\* risk (the cache file being absent or a complete document before the
\* calls).
C29_ReaderSeesCompleteCache ==
    /\ (CacheRead /\ uc_init.state # "bad") => as_cache.state # "bad"
    /\ (VideoCompared /\ VideoFingerprints \cap StoredBefore("video") # {}) =>
          as_video.risk_level # "low"
    /\ (ControlsCompared /\ ControlFingerprints \cap StoredBefore("controls") # {}) =>
          as_controls.risk_level # "low"

=============================================================================
